---- MODULE Spec2Model ----
(***************************************************************************)
(* Refactoring participant (src/src/extension.ts, lines 1-657, and         *)
(* src/src/scopePicker.ts): the chat handler, the preview provider, the    *)
(* apply / restore commands and the scope picker, as a state machine over  *)
(* the host editor's documents.                                            *)
(*                                                                         *)
(* Texts are sequences of one-character strings.  Positions are            *)
(* [line, character] records, zero based as in the host API.               *)
(***************************************************************************)
EXTENDS Integers, Sequences, FiniteSets, TLC

\* ------------------------------------------------------------------ bounds
\* Longest document text an editor starts with or a user edit leaves.
MaxDocLen == 2
\* Steps the user takes in the editor in one behaviour: keystrokes, selection
\* changes, closing or opening a file's editor.
MaxUserSteps == 1
\* Chat requests the handler serves in one behaviour of Spec.
MaxRequests == 1
\* Chat requests the handler serves in one behaviour of SpecFollowUp, where the
\* user takes no step in the editor.
MaxFollowUps == 2
\* Most lines of a markdown answer handed to the extractor in SpecExtract.
MaxMarkdownLines == 6
\* Most messages of a prompt handed to the budget check in SpecBudget.
MaxMessages == 3
\* Calls of showPreview in one behaviour of SpecPreview.
MaxPreviews == 2
\* Chat requests in one behaviour of SpecChain.
MaxChain == 3
\* Most characters of a document path after its leading slash in SpecIdentity.
MaxPathLen == 3

\* ------------------------------------------------------------------- texts
NL == "\n"
\* The backquote character of a markdown fence (written "~": the tools do not
\* read a backquote inside a string).
BT == "~"

Min(a, b) == IF a < b THEN a ELSE b

\* All sequences over S of length at most n.
RECURSIVE SeqsUpTo(_, _)
SeqsUpTo(S, n) ==
    IF n = 0 THEN {<<>>}
    ELSE LET shorter == SeqsUpTo(S, n - 1)
         IN  shorter \cup {Append(s, c) : s \in {x \in shorter : Len(x) = n - 1}, c \in S}

\* Index of the first occurrence of character c in t at or after index i, 0 if none.
RECURSIVE IndexOfFrom(_, _, _)
IndexOfFrom(t, c, i) ==
    IF i > Len(t) THEN 0
    ELSE IF t[i] = c THEN i
    ELSE IndexOfFrom(t, c, i + 1)

\* text.split('\n')
RECURSIVE SplitLines(_)
SplitLines(t) ==
    LET i == IndexOfFrom(t, NL, 1)
    IN  IF i = 0 THEN <<t>>
        ELSE <<SubSeq(t, 1, i - 1)>> \o SplitLines(SubSeq(t, i + 1, Len(t)))

\* lines.join('\n')
RECURSIVE JoinLines(_)
JoinLines(ls) ==
    IF Len(ls) = 0 THEN <<>>
    ELSE IF Len(ls) = 1 THEN ls[1]
    ELSE ls[1] \o <<NL>> \o JoinLines(Tail(ls))

\* ------------------------------------------------- host text document API
Pos(l, c) == [line |-> l, character |-> c]

PosLE(p, q) == p.line < q.line \/ (p.line = q.line /\ p.character <= q.character)

\* document.lineCount
LineCount(t) == Len(SplitLines(t))

\* document.lineAt(n).text.length
LineLength(t, n) == Len(SplitLines(t)[n + 1])

\* The host clamps a position to the document (TextDocument.validatePosition).
ValidatePosition(t, p) ==
    IF p.line >= LineCount(t)
    THEN Pos(LineCount(t) - 1, LineLength(t, LineCount(t) - 1))
    ELSE Pos(p.line, Min(p.character, LineLength(t, p.line)))

\* Offset of the first character of line n.
RECURSIVE LineStart(_, _)
LineStart(t, n) ==
    IF n = 0 THEN 0 ELSE LineStart(t, n - 1) + LineLength(t, n - 1) + 1

\* document.offsetAt(position)
OffsetAt(t, p) ==
    LET q == ValidatePosition(t, p) IN LineStart(t, q.line) + q.character

\* document.positionAt(offset)
RECURSIVE PositionFrom(_, _, _)
PositionFrom(t, off, n) ==
    IF n + 1 >= LineCount(t) \/ off <= LineStart(t, n) + LineLength(t, n)
    THEN Pos(n, Min(off - LineStart(t, n), LineLength(t, n)))
    ELSE PositionFrom(t, off, n + 1)

PositionAt(t, off) == PositionFrom(t, Min(off, Len(t)), 0)

\* new vscode.Selection(startLine, startCharacter, endLine, endCharacter):
\* start is the smaller and end the larger of the two positions.
Sel(p, q) == IF PosLE(p, q) THEN [start |-> p, end |-> q] ELSE [start |-> q, end |-> p]

\* selection.isEmpty
IsEmptySel(s) == s.start = s.end

\* document.getText(range)
GetTextRange(t, r) == SubSeq(t, OffsetAt(t, r.start) + 1, OffsetAt(t, r.end))

\* editBuilder.replace(range, text) applied to the document text.
ReplaceRange(t, r, new) ==
    SubSeq(t, 1, OffsetAt(t, r.start)) \o new \o SubSeq(t, OffsetAt(t, r.end) + 1, Len(t))

\* Every position of a text, and every selection over it.
Positions(t) == {PositionAt(t, o) : o \in 0..Len(t)}
Selections(t) == {Sel(p, q) : p \in Positions(t), q \in Positions(t)}

\* ------------------------------------------------------ suggestion extractor
\* Index of the first "```" of t that starts at or after index i, 0 if none.
RECURSIVE FindFence(_, _)
FindFence(t, i) ==
    IF i + 2 > Len(t) THEN 0
    ELSE IF t[i] = BT /\ t[i + 1] = BT /\ t[i + 2] = BT THEN i
    ELSE FindFence(t, i + 1)

\* markdown.match(/```[\s\S]*?```/g): the non-overlapping matches, left to right,
\* each from a "```" to the nearest "```" that starts after it.
RECURSIVE MatchCodeBlocks(_, _)
MatchCodeBlocks(t, i) ==
    LET s == FindFence(t, i)
        e == IF s = 0 THEN 0 ELSE FindFence(t, s + 3)
    IN  IF s = 0 \/ e = 0 THEN <<>>
        ELSE <<SubSeq(t, s, e + 2)>> \o MatchCodeBlocks(t, e + 3)

extractLastMarkdownCodeBlock(markdown) ==
    LET codeBlocks == MatchCodeBlocks(markdown, 1)
    IN  IF Len(codeBlocks) > 0 THEN codeBlocks[Len(codeBlocks)] ELSE <<>>

removeFirstAndLastLine(text) ==
    LET lines   == SplitLines(text)
        shifted == Tail(lines)
        popped  == IF Len(shifted) = 0 THEN shifted ELSE SubSeq(shifted, 1, Len(shifted) - 1)
    IN  JoinLines(popped)

\* ---------------------------------------------------------------- constants
PREVIEW_REFACTORING == "refactoring.preview"
ANOTHER_REFACTORING == "refactoring.another"
NEXT_REFACTORING == "refactoring.next"

CHAT_COMMAND_SUGGEST_ANOTHER == "suggestAnotherRefactoring"
CHAT_COMMAND_SUGGEST_NEXT == "suggestNextRefactoring"
\* No command: the handler's default case.  The six category commands build a
\* prompt from the selected text and call makeRequest as the default case does;
\* they differ in the prompt's wording only and are not told apart here.
NoCommand == ""
ChatCommands == {NoCommand, CHAT_COMMAND_SUGGEST_NEXT, CHAT_COMMAND_SUGGEST_ANOTHER}

\* User-visible messages.
MsgNone == "none"
MsgNoEditor == "There is no active editor, open an editor and try again."
MsgNoSuggestion == "No refactorings have been suggested, yet."
MsgNoTarget == "The currently active editor does not suggest a refactoring to apply."
MsgStale == "The editor contents has changed. It is no longer possible to apply the suggested refactoring."
MsgApplyFailed == "Failed to apply the suggested refactoring."
\* No message: the command ends with an exception it does not catch.
Thrown == "uncaught exception"

NoPath == ""
NoPos == Pos(0, 0)
NoSel == Sel(NoPos, NoPos)

NoTarget ==
    [documentPath |-> NoPath, documentVersion |-> 0,
     selectionStartLine |-> 0, selectionStartCharacter |-> 0,
     selectionEndLine |-> 0, selectionEndCharacter |-> 0]

NO_REFACTORING_RESULT ==
    [originalCode |-> <<>>, suggestedRefactoring |-> <<>>, refactoringTarget |-> NoTarget]

\* --------------------------------------------------------- the environment
\* Characters of the documents.
DocChars == {"a", NL}
DocTexts == SeqsUpTo(DocChars, MaxDocLen)

\* The one document of the workspace and path.extname of it.
MainPath == "/a.ts"
\* A second document, open in the behaviours of SpecTwoDocs.
OtherPath == "/b.ts"
ExtName(documentPath) == IF documentPath \in {MainPath, OtherPath} THEN ".ts" ELSE ""

\* Answers of the language model, as the fragments of the stream: an empty
\* answer, prose without a code block, and prose followed by a fenced block.
EmptyAnswer == <<>>
ProseAnswer == << <<"n", "o">> >>
BlockAnswer == << <<"o", "k", NL, BT, BT, BT, "t", "s", NL, "x", NL, "y", NL, BT, BT, BT>> >>
Answers == {EmptyAnswer, ProseAnswer, BlockAnswer}
\* An answer of two fragments, a fenced block in each.
LongAnswer ==
    << <<"o", "k", NL, BT, BT, BT, "t", "s", NL, "x", NL, BT, BT, BT>>,
       <<NL, BT, BT, BT, "t", "s", NL, "y", NL, BT, BT, BT>> >>

\* Diagnostics the host may report for a document.
ErrorSeverity == "Error"
WarningSeverity == "Warning"
Diag(sev, l) == [severity |-> sev, line |-> l]
DiagnosticSets ==
    {<<>>, <<Diag(WarningSeverity, 0)>>, <<Diag(WarningSeverity, 1), Diag(ErrorSeverity, 0)>>}

\* The structural outlines the symbol provider may answer with for text t:
\* nothing, a flat SymbolInformation list, an empty tree, one class with one
\* method on the first line.
Symbol(n, r, ch) == [name |-> n, range |-> r, children |-> ch]
WholeRange(t) == Sel(Pos(0, 0), Pos(LineCount(t) - 1, LineLength(t, LineCount(t) - 1)))
FirstLineRange(t) == Sel(Pos(0, 0), Pos(0, LineLength(t, 0)))
NoOutline == [kind |-> "none", symbols |-> <<>>]
FlatOutline == [kind |-> "flat", symbols |-> <<"info">>]
EmptyOutline == [kind |-> "tree", symbols |-> <<>>]
ClassOutline(t) ==
    [kind |-> "tree",
     symbols |-> <<Symbol("Class", WholeRange(t), <<Symbol("Method", FirstLineRange(t), <<>>)>>)>>]
Outlines(t) == {NoOutline, FlatOutline, EmptyOutline, ClassOutline(t)}

\* -------------------------------------------------------------------- state
VARIABLES
    docText,              \* path -> text of the document
    docVersion,           \* path -> document.version
    selection,            \* path -> selection of the editor that shows the document
    active,               \* vscode.window.activeTextEditor
    originalDocs,         \* path -> the saved original text, if any
    capturedDiagnostics,  \* diagnostics captured by the last restore
    provider,             \* previewContentProvider's fields
    chat,                 \* the turns of the chat: result, buttons, message
    queue,                \* the chat request sent to the participant, not yet handled
    req,                  \* the handler's request in flight
    picker,               \* the quick pick of scopePicker.selectRange
    msg,                  \* the message the last step showed the user
    edits,                \* user steps in the editor so far
    limits,               \* the behaviour's bounds on requests and user steps
    extractor,            \* a markdown text and what the extractor made of it
    prompt,               \* a prompt and what the token budget check made of it
    preview,              \* a call of showPreview, statement by statement
    identity              \* a target on its way through the preview's URI

vars ==
    <<docText, docVersion, selection, active, originalDocs, capturedDiagnostics,
      provider, chat, queue, req, picker, msg, edits, limits, extractor, prompt, preview, identity>>

Paths == DOMAIN docText

\* The active editor: none, a file's editor, or the modified side of the diff
\* view, whose document identity carries the encoded target.
\* (turn: the chat turn whose button opened the view; not read by the program.)
NoEditor ==
    [kind |-> "none", path |-> NoPath, target |-> NoTarget, text |-> <<>>, under |-> NoPath, turn |-> 0]
FileEditor(p) ==
    [kind |-> "file", path |-> p, target |-> NoTarget, text |-> <<>>, under |-> NoPath, turn |-> 0]
DiffEditor(tg, t, u, i) ==
    [kind |-> "diff", path |-> NoPath, target |-> tg, text |-> t, under |-> u, turn |-> i]

\* What stands in a view's query for a refactoringTarget that decodeURIComponent
\* or JSON.parse does not accept.
MalformedTarget == [NoTarget EXCEPT !.documentVersion = -1]

\* The editor that becomes active when the active diff view is closed.
EditorUnder(a) == IF a.under = NoPath THEN NoEditor ELSE FileEditor(a.under)

NoSaved == [has |-> FALSE, text |-> <<>>]
Saved(t) == [has |-> TRUE, text |-> t]

IdleReq ==
    [pc |-> "idle", command |-> NoCommand, path |-> NoPath, code |-> <<>>,
     suggestedRefactoring |-> <<>>, stream |-> <<>>, diagnostics |-> <<>>,
     capText |-> <<>>, capVersion |-> 0, capSelection |-> NoSel, disturbed |-> FALSE,
     cancelled |-> FALSE]

\* The quick pick.  highlighted is the item the host has made active, 0 if none;
\* outcome (not read by the program) tells what selectRange did when it was
\* last called: "false" (returned false without a pick), "all" (selectAll),
\* "open", "confirmed", "cancelled", or "none" when it was not called; outline
\* (not read either) the kind of outline the symbol provider answered with.
NoPicker ==
    [open |-> FALSE, items |-> <<>>, initialSelection |-> NoSel, path |-> NoPath,
     caller |-> "none", highlighted |-> 0, outcome |-> "none", outline |-> "none"]
PickerDone(outcome, kind) == [NoPicker EXCEPT !.outcome = outcome, !.outline = kind]
OpenPicker(items, initialSelection, p, caller) ==
    [open |-> TRUE, items |-> items, initialSelection |-> initialSelection, path |-> p,
     caller |-> caller, highlighted |-> 1, outcome |-> "open", outline |-> "tree"]

\* A turn of the chat: the handler's result, the buttons it streamed and the
\* message it showed.  The other fields are not read by the program: cap* are the
\* document text, version and selection when originalCode was read, applied tells
\* that the result has been applied, restore what restoreOriginalContents did
\* for it last, disturbed that the user or another result's apply or restore has
\* changed the document or its selection since the capture, cancelled that the
\* request was cancelled while its answer was streamed, diagnostics the captured
\* diagnostics its prompt included.
Turn(result, buttons, m, r) ==
    [result |-> result, buttons |-> buttons, msg |-> m, command |-> r.command,
     capText |-> r.capText, capVersion |-> r.capVersion, capSelection |-> r.capSelection,
     applied |-> FALSE, restore |-> "no", disturbed |-> r.disturbed,
     cancelled |-> r.cancelled, diagnostics |-> r.diagnostics]

\* Every turn but turn i, and the request in flight, see the document disturbed.
DisturbChat(i) ==
    [k \in DOMAIN chat |-> IF k = i THEN chat[k] ELSE [chat[k] EXCEPT !.disturbed = TRUE]]
DisturbReq == [req EXCEPT !.disturbed = TRUE]

\* No prompt under the budget check.
NoPrompt == [pc |-> "idle", messages |-> <<>>, told |-> "none", sent |-> FALSE]

\* No call of showPreview under way: todo holds the statements still to run,
\* arg what the call was given, fired the URIs _onDidChange has fired in the
\* call, log the statements run in the call, count the calls so far, served the
\* last content the host resolved, current the arguments of the latest
\* updateContent and earlier those of the one before it.
NoArtifact == [original |-> <<>>, refactored |-> <<>>, ext |-> ""]
NoPreview ==
    [todo |-> <<>>, arg |-> NoArtifact, fired |-> <<>>, log |-> <<>>, count |-> 0,
     served |-> [uri |-> "", content |-> <<>>], current |-> NoArtifact,
     earlier |-> NoArtifact]

\* No target under way: target is the target showPreview was given, query the
\* query of the annotated URI, annotation what applyRefactoring made of it.
NoIdentity ==
    [pc |-> "idle", target |-> [NoTarget EXCEPT !.documentPath = <<>>], query |-> <<>>,
     annotation |-> [NoTarget EXCEPT !.documentPath = <<>>]]

\* The extractor at rest.
NoExtraction == [pc |-> "idle", markdown |-> <<>>, codeBlock |-> <<>>, refactoredCode |-> <<>>]

InitWith(requests, steps, long) ==
    /\ \E t \in DocTexts : docText = [p \in {MainPath} |-> t]
    /\ docVersion = [p \in {MainPath} |-> 1]
    /\ \E s \in Selections(docText[MainPath]) : selection = [p \in {MainPath} |-> s]
    /\ active \in {FileEditor(MainPath), NoEditor}
    /\ originalDocs = [p \in {MainPath} |-> NoSaved]
    /\ capturedDiagnostics = <<>>
    /\ provider = [originalContent |-> <<>>, refactoredContent |-> <<>>, fileExtension |-> ""]
    /\ chat = <<>>
    /\ queue = "none"
    /\ req = IdleReq
    /\ picker = NoPicker
    /\ msg = MsgNone
    /\ edits = 0
    /\ limits = [requests |-> requests, steps |-> steps, long |-> long]
    /\ extractor = NoExtraction
    /\ prompt = NoPrompt
    /\ preview = NoPreview
    /\ identity = NoIdentity

Init == InitWith(MaxRequests, MaxUserSteps, FALSE)

InitFollowUp == InitWith(MaxFollowUps, 0, FALSE)

\* Two documents with the same text, each wholly selected or with the cursor
\* at its start, the first one in the active editor; two requests and no edits
\* by the user.
InitTwoDocs ==
    /\ docText = [p \in {MainPath, OtherPath} |-> <<"a">>]
    /\ docVersion = [p \in {MainPath, OtherPath} |-> 1]
    /\ selection \in [{MainPath, OtherPath} -> {Sel(Pos(0, 0), Pos(0, 1)), Sel(Pos(0, 0), Pos(0, 0))}]
    /\ active = FileEditor(MainPath)
    /\ originalDocs = [p \in {MainPath, OtherPath} |-> NoSaved]
    /\ capturedDiagnostics = <<>>
    /\ provider = [originalContent |-> <<>>, refactoredContent |-> <<>>, fileExtension |-> ""]
    /\ chat = <<>>
    /\ queue = "none"
    /\ req = IdleReq
    /\ picker = NoPicker
    /\ msg = MsgNone
    /\ edits = 0
    /\ limits = [requests |-> MaxFollowUps, steps |-> 0, long |-> FALSE]
    /\ extractor = NoExtraction
    /\ prompt = NoPrompt
    /\ preview = NoPreview
    /\ identity = NoIdentity

\* One request, which the model may answer in two fragments.
InitCancel == InitWith(MaxRequests, 0, TRUE)

\* ------------------------------------------------------------ the program
\* selection with start.character 0 and end.character the end line's length
FullLines(t, sel) ==
    Sel(Pos(sel.start.line, 0), Pos(sel.end.line, LineLength(t, sel.end.line)))

\* getSelectedText of the editor of document p, whose selection is sel
getSelectedText(p, sel) == GetTextRange(docText[p], FullLines(docText[p], sel))

getRefactoringTarget(p) ==
    [documentPath |-> p,
     documentVersion |-> docVersion[p],
     selectionStartLine |-> selection[p].start.line,
     selectionStartCharacter |-> selection[p].start.character,
     selectionEndLine |-> selection[p].end.line,
     selectionEndCharacter |-> selection[p].end.character]

createRefactoringResult(suggestedRefactoring, code, p) ==
    [suggestedRefactoring |-> suggestedRefactoring,
     originalCode |-> code,
     refactoringTarget |-> getRefactoringTarget(p)]

\* A selection of the target's lines that drops the target's columns.
TargetLinesOnly(annotation) ==
    Sel(Pos(annotation.selectionStartLine, 0), Pos(annotation.selectionEndLine, 0))

\* new vscode.Selection(annotation.selectionStartLine, ...)
TargetSelection(annotation) ==
    Sel(Pos(annotation.selectionStartLine, annotation.selectionStartCharacter),
        Pos(annotation.selectionEndLine, annotation.selectionEndCharacter))

\* The three buttons streamed whatever the answer is.
ButtonsAlways(suggestedRefactoring) ==
    {PREVIEW_REFACTORING, NEXT_REFACTORING, ANOTHER_REFACTORING}

\* if (suggestedRefactoring.length > 0): the buttons makeRequest streams
ButtonsFor(suggestedRefactoring) ==
    IF Len(suggestedRefactoring) > 0
    THEN {PREVIEW_REFACTORING, NEXT_REFACTORING, ANOTHER_REFACTORING}
    ELSE {}

\* A version comparison that lets every version through.
VersionUnchecked(version, annotation) == TRUE

\* editor.document.version !== annotation.documentVersion, negated
VersionUnchanged(version, annotation) == version = annotation.documentVersion

\* A test of the saved content that takes an absent entry for a saved one.
HasContentAlways(originalContent) == TRUE

\* if (originalContent): undefined and the empty string are both falsy
HasOriginalContent(originalContent) == originalContent.has /\ originalContent.text # <<>>

\* A history test that every history passes.
hasRequestAlways == TRUE

\* context.history.some(entry => entry.participant.name === 'refactoring')
hasRefactoringRequest == Len(chat) > 0

\* A provider that resolves by the name alone, whatever the extension.
provideIgnoringExtension(pr, uriPath) ==
    IF uriPath \in {"original", "original.ts", "original.js"} THEN pr.originalContent
    ELSE IF uriPath \in {"refactored", "refactored.ts", "refactored.js"} THEN pr.refactoredContent
    ELSE <<"F", "a", "i", "l", "e", "d">>

\* RefactoringPreviewContentProvider.provideTextDocumentContent
MsgNoContent == <<"F", "a", "i", "l", "e", "d">>
provideTextDocumentContent(pr, uriPath) ==
    IF uriPath = "original" \o pr.fileExtension THEN pr.originalContent
    ELSE IF uriPath = "refactored" \o pr.fileExtension THEN pr.refactoredContent
    ELSE MsgNoContent

\* An updateContent that keeps the original text it already holds.
updateKeepingOriginal(original, refactored, fileExtension) ==
    [originalContent |-> IF provider.originalContent = <<>> THEN original
                         ELSE provider.originalContent,
     refactoredContent |-> refactored, fileExtension |-> fileExtension]

\* RefactoringPreviewContentProvider.updateContent
updateContent(original, refactored, fileExtension) ==
    [originalContent |-> original, refactoredContent |-> refactored, fileExtension |-> fileExtension]

\* The editor's selection after the host applied replace(r, new) to text t.
SelectionAfterReplace(t, sel, r, new) ==
    LET s == OffsetAt(t, r.start)
        e == OffsetAt(t, r.end)
        n == Len(new)
        t2 == ReplaceRange(t, r, new)
        so == OffsetAt(t, sel.start)
        eo == OffsetAt(t, sel.end)
        so2 == IF so <= s THEN so ELSE IF so >= e THEN so - e + s + n ELSE s + n
        eo2 == IF eo < s THEN eo ELSE IF eo >= e THEN eo - e + s + n ELSE s + n
    IN  Sel(PositionAt(t2, so2), PositionAt(t2, eo2))

\* captureDiagnosticsForDocument over the diagnostics the host reports
captureDiagnosticsForDocument(diagnostics) ==
    LET errors == SelectSeq(diagnostics, LAMBDA d : d.severity = ErrorSeverity)
    IN  IF Len(errors) > 0 THEN diagnostics ELSE <<>>

\* scopePicker.findEnclosingSymbol; <<>> stands for undefined
RECURSIVE findEnclosingSymbol(_, _)
findEnclosingSymbol(rootSymbols, position) ==
    IF Len(rootSymbols) = 0 THEN <<>>
    ELSE LET symbol == Head(rootSymbols)
         IN  IF PosLE(symbol.range.start, position) /\ PosLE(position, symbol.range.end)
             THEN <<symbol>> \o findEnclosingSymbol(symbol.children, position)
             ELSE findEnclosingSymbol(Tail(rootSymbols), position)

\* The chain as findEnclosingSymbol returns it, outermost first.
Unreversed(q) == q

\* Array.prototype.reverse
Reverse(q) == [k \in 1..Len(q) |-> q[Len(q) + 1 - k]]

\* scopePicker.selectAll
selectAll(t) == WholeRange(t)

\* scopePicker.selectRange up to the quick pick: "false" (returns false), "all"
\* (selectAll, returns true) or "pick" (the quick pick opens).
selectRangeStep(t, sel, outline) ==
    IF outline.kind = "none" THEN "false"
    ELSE IF Len(outline.symbols) > 0 /\ outline.kind = "flat" THEN "false"
    ELSE IF Len(findEnclosingSymbol(outline.symbols, sel.end)) > 0 THEN "pick"
    ELSE "all"

quickPickItems(t, sel, outline) == Reverse(findEnclosingSymbol(outline.symbols, sel.end))

\* ------------------------------------------------------------- user steps
\* The texts one keystroke leaves: a character typed or deleted at offset o.
Keystrokes(t) ==
    {[text |-> SubSeq(t, 1, o) \o <<c>> \o SubSeq(t, o + 1, Len(t)), cursor |-> o + 1] :
        o \in 0..Len(t), c \in DocChars}
    \cup {[text |-> SubSeq(t, 1, o - 1) \o SubSeq(t, o + 1, Len(t)), cursor |-> o - 1] :
        o \in 1..Len(t)}

\* The user types in the active file editor: the version stamp increases.
UserEdit ==
    /\ active.kind = "file"
    /\ ~picker.open
    /\ edits < limits.steps
    /\ LET p == active.path IN
       \E k \in Keystrokes(docText[p]) :
          /\ Len(k.text) <= MaxDocLen
          /\ docText' = [docText EXCEPT ![p] = k.text]
          /\ docVersion' = [docVersion EXCEPT ![p] = @ + 1]
          /\ selection' = [selection EXCEPT
                ![p] = Sel(PositionAt(k.text, k.cursor), PositionAt(k.text, k.cursor))]
    /\ edits' = edits + 1
    /\ chat' = DisturbChat(0)
    /\ req' = DisturbReq
    /\ msg' = MsgNone
    /\ UNCHANGED <<active, originalDocs, capturedDiagnostics, provider, queue, picker, limits, extractor, prompt, preview, identity>>

\* The user changes the selection of the active file editor.
UserSelect ==
    /\ active.kind = "file"
    /\ ~picker.open
    /\ edits < limits.steps
    /\ LET p == active.path IN
       \E s \in Selections(docText[p]) \ {selection[p]} :
          selection' = [selection EXCEPT ![p] = s]
    /\ edits' = edits + 1
    /\ chat' = DisturbChat(0)
    /\ req' = DisturbReq
    /\ msg' = MsgNone
    /\ UNCHANGED <<docText, docVersion, active, originalDocs, capturedDiagnostics,
                   provider, queue, picker, limits, extractor, prompt, preview, identity>>

\* The user closes the active file editor.
UserCloseEditor ==
    /\ active.kind = "file"
    /\ ~picker.open
    /\ edits < limits.steps
    /\ edits' = edits + 1
    /\ active' = NoEditor
    /\ msg' = MsgNone
    /\ UNCHANGED <<docText, docVersion, selection, originalDocs, capturedDiagnostics,
                   provider, chat, queue, req, picker, limits, extractor, prompt, preview, identity>>

\* The user opens a file's editor while none is active.
UserOpenEditor ==
    /\ active.kind = "none"
    /\ edits < limits.steps
    /\ edits' = edits + 1
    /\ \E p \in Paths : active' = FileEditor(p)
    /\ msg' = MsgNone
    /\ UNCHANGED <<docText, docVersion, selection, originalDocs, capturedDiagnostics,
                   provider, chat, queue, req, picker, limits, extractor, prompt, preview, identity>>

\* The user brings the editor of another open document to the front.
UserSwitchEditor ==
    /\ active.kind = "file"
    /\ ~picker.open
    /\ \E p \in Paths \ {active.path} : active' = FileEditor(p)
    /\ msg' = MsgNone
    /\ UNCHANGED <<docText, docVersion, selection, originalDocs, capturedDiagnostics,
                   provider, chat, queue, req, picker, edits, limits, extractor, prompt, preview, identity>>

\* A view becomes active whose URI has a refactoringTarget query that showPreview
\* did not write: the value is not the encoding of a target.
UserOpenForeignView ==
    /\ active.kind = "file"
    /\ ~picker.open
    /\ active' = DiffEditor(MalformedTarget, <<>>, active.path, 0)
    /\ msg' = MsgNone
    /\ UNCHANGED <<docText, docVersion, selection, originalDocs, capturedDiagnostics,
                   provider, chat, queue, req, picker, edits, limits, extractor, prompt, preview, identity>>

\* The user closes the diff view without applying.
UserClosePreview ==
    /\ active.kind = "diff"
    /\ active' = EditorUnder(active)
    /\ msg' = MsgNone
    /\ UNCHANGED <<docText, docVersion, selection, originalDocs, capturedDiagnostics,
                   provider, chat, queue, req, picker, edits, limits, extractor, prompt, preview, identity>>

\* The user sends "@refactoring /command" in the chat view (with a file editor
\* or no editor active).
UserChat ==
    /\ queue = "none"
    /\ req.pc = "idle"
    /\ ~picker.open
    /\ active.kind # "diff"
    /\ Len(chat) < limits.requests
    /\ \E c \in ChatCommands : queue' = c
    /\ msg' = MsgNone
    /\ UNCHANGED <<docText, docVersion, selection, active, originalDocs,
                   capturedDiagnostics, provider, chat, req, picker, edits, limits, extractor, prompt, preview, identity>>

\* ------------------------------------------------------------ chat handler
SentinelTurn(m, command) ==
    Turn(NO_REFACTORING_RESULT, {}, m, [IdleReq EXCEPT !.command = command])

\* A dispatch whose 'suggest another' prompt leaves the captured diagnostics in
\* place.
DispatchKeepingDiagnostics(command, p, sel) ==
    IF command \in {CHAT_COMMAND_SUGGEST_NEXT, CHAT_COMMAND_SUGGEST_ANOTHER}
       /\ ~hasRefactoringRequest
    THEN /\ chat' = Append(chat, SentinelTurn(MsgNoSuggestion, command))
         /\ req' = IdleReq
         /\ msg' = MsgNoSuggestion
         /\ UNCHANGED capturedDiagnostics
    ELSE /\ \E answer \in (IF limits.long THEN Answers \cup {LongAnswer} ELSE Answers) :
            req' = [pc |-> "streaming", command |-> command, path |-> p,
                    code |-> getSelectedText(p, sel),
                    suggestedRefactoring |-> <<>>, stream |-> answer,
                    diagnostics |-> IF command = CHAT_COMMAND_SUGGEST_ANOTHER
                                    THEN capturedDiagnostics ELSE <<>>,
                    capText |-> docText[p], capVersion |-> docVersion[p],
                    capSelection |-> sel, disturbed |-> FALSE, cancelled |-> FALSE]
         /\ msg' = MsgNone
         /\ UNCHANGED <<chat, capturedDiagnostics>>

\* handler, from the switch on request.command to the first fragment: the command
\* is refused, or suggest...Refactoring reads the selected text of editor p, whose
\* selection is sel, and makeRequest sends the request.
Dispatch(command, p, sel) ==
    IF command \in {CHAT_COMMAND_SUGGEST_NEXT, CHAT_COMMAND_SUGGEST_ANOTHER}
       /\ ~hasRefactoringRequest
    THEN /\ chat' = Append(chat, SentinelTurn(MsgNoSuggestion, command))
         /\ req' = IdleReq
         /\ msg' = MsgNoSuggestion
         /\ UNCHANGED capturedDiagnostics
    ELSE /\ \E answer \in (IF limits.long THEN Answers \cup {LongAnswer} ELSE Answers) :
            req' = [pc |-> "streaming", command |-> command, path |-> p,
                    code |-> getSelectedText(p, sel),
                    suggestedRefactoring |-> <<>>, stream |-> answer,
                    diagnostics |-> IF command = CHAT_COMMAND_SUGGEST_ANOTHER
                                    THEN capturedDiagnostics ELSE <<>>,
                    capText |-> docText[p], capVersion |-> docVersion[p],
                    capSelection |-> sel, disturbed |-> FALSE, cancelled |-> FALSE]
         /\ capturedDiagnostics' = IF command = CHAT_COMMAND_SUGGEST_ANOTHER
                                   THEN <<>> ELSE capturedDiagnostics
         /\ msg' = MsgNone
         /\ UNCHANGED chat

\* A handler that goes on to its switch when selectRange returned false.
HandlerIgnoringSelectRange ==
    /\ queue # "none"
    /\ req.pc = "idle"
    /\ ~picker.open
    /\ active.kind = "file"
    /\ Len(chat) < limits.requests
    /\ IsEmptySel(selection[active.path])
    /\ queue' = "none"
    /\ \E outline \in {NoOutline, FlatOutline} :
          /\ picker' = PickerDone("false", outline.kind)
          /\ Dispatch(queue, active.path, selection[active.path])
    /\ UNCHANGED <<docText, docVersion, selection, active, originalDocs, provider, edits,
                   limits, extractor, prompt, preview, identity>>

\* handler: the participant is invoked with the queued request.
HandlerStart ==
    /\ queue # "none"
    /\ req.pc = "idle"
    /\ ~picker.open
    /\ active.kind # "diff"
    /\ Len(chat) < limits.requests
    /\ queue' = "none"
    /\ IF active.kind = "none"
       THEN /\ chat' = Append(chat, SentinelTurn(MsgNoEditor, queue))
            /\ msg' = MsgNoEditor
            /\ picker' = NoPicker
            /\ UNCHANGED <<selection, req, capturedDiagnostics>>
       ELSE LET p == active.path
                t == docText[p]
            IN  IF ~IsEmptySel(selection[p])
                THEN /\ Dispatch(queue, p, selection[p])
                     /\ picker' = NoPicker
                     /\ UNCHANGED selection
                ELSE \E outline \in Outlines(t) :
                       LET step == selectRangeStep(t, selection[p], outline) IN
                       IF step = "false"
                       THEN /\ chat' = Append(chat, SentinelTurn(MsgNone, queue))
                            /\ msg' = MsgNone
                            /\ picker' = PickerDone("false", outline.kind)
                            /\ UNCHANGED <<selection, req, capturedDiagnostics>>
                       ELSE IF step = "all"
                       THEN /\ selection' = [selection EXCEPT ![p] = selectAll(t)]
                            /\ Dispatch(queue, p, selectAll(t))
                            /\ picker' = PickerDone("all", outline.kind)
                       ELSE LET items == quickPickItems(t, selection[p], outline) IN
                            /\ picker' = OpenPicker(items, selection[p], p, "handler")
                            /\ selection' = [selection EXCEPT ![p] = items[1].range]
                            /\ req' = [IdleReq EXCEPT !.pc = "picking", !.command = queue]
                            /\ msg' = MsgNone
                            /\ UNCHANGED <<chat, capturedDiagnostics>>
    /\ UNCHANGED <<docText, docVersion, active, originalDocs, provider, edits, limits, extractor, prompt, preview, identity>>

\* makeRequest: a fragment of the stream arrives.
StreamFragment ==
    /\ req.pc = "streaming"
    /\ Len(req.stream) > 0
    /\ req' = [req EXCEPT !.suggestedRefactoring = @ \o Head(req.stream),
                          !.stream = Tail(@)]
    /\ msg' = MsgNone
    /\ UNCHANGED <<docText, docVersion, selection, active, originalDocs,
                   capturedDiagnostics, provider, chat, queue, picker, edits, limits, extractor, prompt, preview, identity>>

\* The caller's cancellation token fires while the answer is streamed.
\* makeRequest hands the token to the language model request and does not look
\* at it again: the host either ends the stream (the for await loop ends as on
\* a complete answer) or makes it throw (the handler returns no result).
CancelRequest ==
    /\ req.pc = "streaming"
    /\ Len(req.stream) > 0
    /\ ~req.cancelled
    /\ \E ends \in BOOLEAN :
          IF ends
          THEN /\ req' = [req EXCEPT !.stream = <<>>, !.cancelled = TRUE]
               /\ UNCHANGED chat
          ELSE /\ req' = IdleReq
               /\ chat' = Append(chat, [SentinelTurn(MsgNone, req.command)
                                           EXCEPT !.cancelled = TRUE])
    /\ msg' = MsgNone
    /\ UNCHANGED <<docText, docVersion, selection, active, originalDocs,
                   capturedDiagnostics, provider, queue, picker, edits, limits, extractor, prompt, preview, identity>>

\* makeRequest: the stream ends; the buttons are streamed and the result returned.
StreamEnd ==
    /\ req.pc = "streaming"
    /\ Len(req.stream) = 0
    /\ chat' = Append(chat,
          Turn(createRefactoringResult(req.suggestedRefactoring, req.code, req.path),
               ButtonsFor(req.suggestedRefactoring), MsgNone, req))
    /\ req' = IdleReq
    /\ msg' = MsgNone
    /\ UNCHANGED <<docText, docVersion, selection, active, originalDocs,
                   capturedDiagnostics, provider, queue, picker, edits, limits, extractor, prompt, preview, identity>>

\* ------------------------------------------------------------ scope picker
\* A highlight that moves the quick pick's focus and leaves the editor alone.
PickHighlightOnly ==
    /\ picker.open
    /\ \E k \in 1..Len(picker.items) :
          /\ picker.highlighted # k
          /\ picker' = [picker EXCEPT !.highlighted = k]
    /\ msg' = MsgNone
    /\ UNCHANGED <<docText, docVersion, selection, active, originalDocs, capturedDiagnostics,
                   provider, chat, queue, req, edits, limits, extractor, prompt, preview, identity>>

\* onDidSelectItem: the user highlights item k of the quick pick.
PickHighlight ==
    /\ picker.open
    /\ \E k \in 1..Len(picker.items) :
          /\ picker.highlighted # k
          /\ picker' = [picker EXCEPT !.highlighted = k]
          /\ selection' = [selection EXCEPT ![picker.path] = picker.items[k].range]
    /\ msg' = MsgNone
    /\ UNCHANGED <<docText, docVersion, active, originalDocs, capturedDiagnostics,
                   provider, chat, queue, req, edits, limits, extractor, prompt, preview, identity>>

\* The user confirms the highlighted item: selectRange returns true and its
\* caller goes on (the handler to its switch, the editor action to the chat).
PickConfirm ==
    /\ picker.open
    /\ picker' = [PickerDone("confirmed", "tree") EXCEPT !.highlighted = picker.highlighted]
    /\ IF picker.caller = "handler"
       THEN /\ Dispatch(req.command, picker.path, selection[picker.path])
            /\ UNCHANGED queue
       ELSE /\ queue' = NoCommand
            /\ msg' = MsgNone
            /\ UNCHANGED <<chat, req, capturedDiagnostics>>
    /\ UNCHANGED <<docText, docVersion, selection, active, originalDocs, provider,
                   edits, limits, extractor, prompt, preview, identity>>

\* A cancel that leaves the highlighted range selected.
PickCancelKeepingSelection ==
    /\ picker.open
    /\ picker' = [PickerDone("cancelled", "tree") EXCEPT !.highlighted = picker.highlighted]
    /\ IF picker.caller = "handler"
       THEN /\ chat' = Append(chat, SentinelTurn(MsgNone, req.command))
            /\ req' = IdleReq
       ELSE UNCHANGED <<chat, req>>
    /\ msg' = MsgNone
    /\ UNCHANGED <<docText, docVersion, selection, active, originalDocs, capturedDiagnostics,
                   provider, queue, edits, limits, extractor, prompt, preview, identity>>

\* The user cancels the quick pick: the selection is restored and selectRange
\* returns false.
PickCancel ==
    /\ picker.open
    /\ picker' = [PickerDone("cancelled", "tree") EXCEPT !.highlighted = picker.highlighted]
    /\ selection' = [selection EXCEPT ![picker.path] = picker.initialSelection]
    /\ IF picker.caller = "handler"
       THEN /\ chat' = Append(chat, SentinelTurn(MsgNone, req.command))
            /\ req' = IdleReq
       ELSE UNCHANGED <<chat, req>>
    /\ msg' = MsgNone
    /\ UNCHANGED <<docText, docVersion, active, originalDocs, capturedDiagnostics,
                   provider, queue, edits, limits, extractor, prompt, preview, identity>>

\* suggestRefactoringAction: the editor's 'Suggest Refactoring' command.
suggestRefactoringAction ==
    /\ queue = "none"
    /\ req.pc = "idle"
    /\ ~picker.open
    /\ active.kind # "diff"
    /\ Len(chat) < limits.requests
    /\ IF active.kind = "file" /\ IsEmptySel(selection[active.path])
       THEN LET p == active.path
                t == docText[p]
            IN  \E outline \in Outlines(t) :
                  LET step == selectRangeStep(t, selection[p], outline) IN
                  IF step = "false"
                  THEN /\ picker' = PickerDone("false", outline.kind)
                       /\ UNCHANGED <<selection, queue>>
                  ELSE IF step = "all"
                  THEN /\ selection' = [selection EXCEPT ![p] = selectAll(t)]
                       /\ queue' = NoCommand
                       /\ picker' = PickerDone("all", outline.kind)
                  ELSE LET items == quickPickItems(t, selection[p], outline) IN
                       /\ picker' = OpenPicker(items, selection[p], p, "action")
                       /\ selection' = [selection EXCEPT ![p] = items[1].range]
                       /\ UNCHANGED queue
       ELSE /\ queue' = NoCommand
            /\ picker' = NoPicker
            /\ UNCHANGED selection
    /\ msg' = MsgNone
    /\ UNCHANGED <<docText, docVersion, active, originalDocs, capturedDiagnostics,
                   provider, chat, req, edits, limits, extractor, prompt, preview, identity>>

\* ------------------------------------------------------- preview and apply
\* closeDiffEditorIfActive: the active editor after it
closeDiffEditorIfActive(a) == IF a.kind = "diff" THEN EditorUnder(a) ELSE a

\* A preview that writes the refactored code into the document at once.
showPreviewWriting(i) ==
    /\ ~picker.open
    /\ PREVIEW_REFACTORING \in chat[i].buttons
    /\ LET arg == chat[i].result
           p == arg.refactoringTarget.documentPath
       IN  /\ docText' = [docText EXCEPT ![p] =
                  removeFirstAndLastLine(extractLastMarkdownCodeBlock(arg.suggestedRefactoring))]
           /\ docVersion' = [docVersion EXCEPT ![p] = @ + 1]
    /\ msg' = MsgNone
    /\ UNCHANGED <<selection, active, originalDocs, capturedDiagnostics, provider,
                   chat, queue, req, picker, edits, limits, extractor, prompt, preview, identity>>

\* showPreview(arg), arg the result of the 'Show Diff & Apply' button of turn i.
showPreviewOf(i) ==
    /\ ~picker.open
    /\ PREVIEW_REFACTORING \in chat[i].buttons
    /\ LET arg == chat[i].result
           codeBlock == extractLastMarkdownCodeBlock(arg.suggestedRefactoring)
           refactoredCode == removeFirstAndLastLine(codeBlock)
           target == arg.refactoringTarget
           fileExtension == ExtName(target.documentPath)
           updated == updateContent(arg.originalCode, refactoredCode, fileExtension)
           refactoredUri == "refactored" \o fileExtension
       IN  IF Len(codeBlock) = 0
           THEN UNCHANGED <<provider, active>>
           ELSE /\ provider' = updated
                /\ active' = DiffEditor(target,
                                        provideTextDocumentContent(updated, refactoredUri),
                                        closeDiffEditorIfActive(active).path, i)
    /\ msg' = MsgNone
    /\ UNCHANGED <<docText, docVersion, selection, originalDocs, capturedDiagnostics,
                   chat, queue, req, picker, edits, limits, extractor, prompt, preview, identity>>

showPreview == \E i \in DOMAIN chat : showPreviewOf(i)

\* An apply that saves the document's text as it is after the edit.
applySavingEditedText ==
    /\ ~picker.open
    /\ active.kind = "diff"
    /\ LET annotation == active.target
           p == annotation.documentPath
           edited == ReplaceRange(docText[p], TargetSelection(annotation), active.text)
       IN  /\ VersionUnchanged(docVersion[p], annotation)
           /\ active' = FileEditor(p)
           /\ docText' = [docText EXCEPT ![p] = edited]
           /\ docVersion' = [docVersion EXCEPT ![p] = @ + 1]
           /\ selection' = [selection EXCEPT ![p] =
                  SelectionAfterReplace(docText[p], @, TargetSelection(annotation), active.text)]
           /\ originalDocs' = [originalDocs EXCEPT ![p] = Saved(edited)]
           /\ chat' = [DisturbChat(active.turn) EXCEPT ![active.turn].applied = TRUE]
           /\ req' = DisturbReq
           /\ msg' = MsgNone
    /\ UNCHANGED <<capturedDiagnostics, provider, queue, picker, edits, limits, extractor,
                   prompt, preview, identity>>

\* An apply that stores the original content although the edit failed.
applySavingDespiteFailure ==
    /\ ~picker.open
    /\ active.kind = "diff"
    /\ LET annotation == active.target
           p == annotation.documentPath
       IN  /\ VersionUnchanged(docVersion[p], annotation)
           /\ active' = FileEditor(p)
           /\ originalDocs' = [originalDocs EXCEPT ![p] = Saved(docText[p])]
           /\ msg' = MsgApplyFailed
    /\ UNCHANGED <<docText, docVersion, selection, chat, req, capturedDiagnostics, provider,
                   queue, picker, edits, limits, extractor, prompt, preview, identity>>

\* An apply that closes the active editor before it looks for the target.
applyClosingActiveEditor ==
    /\ ~picker.open
    /\ active.kind = "file"
    /\ msg' = MsgNoTarget
    /\ active' = NoEditor
    /\ UNCHANGED <<docText, docVersion, selection, originalDocs, chat, req,
                   capturedDiagnostics, provider, queue, picker, edits, limits, extractor, prompt, preview, identity>>

\* An apply that compares the versions while the preview is still open.
applyCheckingBeforeClosing ==
    /\ ~picker.open
    /\ active.kind = "diff"
    /\ ~VersionUnchanged(docVersion[active.target.documentPath], active.target)
    /\ msg' = MsgStale
    /\ UNCHANGED <<docText, docVersion, selection, active, originalDocs, chat, req,
                   capturedDiagnostics, provider, queue, picker, edits, limits, extractor, prompt, preview, identity>>

\* applyRefactoring: the 'Apply Refactoring' command.
applyRefactoring ==
    /\ ~picker.open
    /\ IF active.kind = "none"
       THEN /\ msg' = MsgNoEditor
            /\ UNCHANGED <<docText, docVersion, selection, active, originalDocs, chat, req>>
       ELSE IF active.kind = "file"
       THEN /\ msg' = MsgNoTarget
            /\ UNCHANGED <<docText, docVersion, selection, active, originalDocs, chat, req>>
       ELSE IF active.target = MalformedTarget
       THEN /\ msg' = Thrown
            /\ UNCHANGED <<docText, docVersion, selection, active, originalDocs, chat, req>>
       ELSE LET annotation == active.target
                p == annotation.documentPath
                replacement == active.text
                originalContent == docText[p]
                targetSelection == TargetSelection(annotation)
            IN  /\ active' = FileEditor(p)
                /\ IF ~VersionUnchanged(docVersion[p], annotation)
                   THEN /\ msg' = MsgStale
                        /\ UNCHANGED <<docText, docVersion, selection, originalDocs, chat, req>>
                   ELSE \E success \in BOOLEAN :
                        IF success
                        THEN /\ docText' = [docText EXCEPT ![p] =
                                    ReplaceRange(originalContent, targetSelection, replacement)]
                             /\ docVersion' = [docVersion EXCEPT ![p] = @ + 1]
                             /\ selection' = [selection EXCEPT ![p] =
                                    SelectionAfterReplace(originalContent, @, targetSelection,
                                                          replacement)]
                             /\ originalDocs' = [originalDocs EXCEPT ![p] = Saved(originalContent)]
                             /\ chat' = [DisturbChat(active.turn) EXCEPT
                                            ![active.turn].applied = TRUE]
                             /\ req' = DisturbReq
                             /\ msg' = MsgNone
                        ELSE /\ msg' = MsgApplyFailed
                             /\ UNCHANGED <<docText, docVersion, selection, originalDocs,
                                            chat, req>>
    /\ UNCHANGED <<capturedDiagnostics, provider, queue, picker, edits, limits, extractor, prompt, preview, identity>>

\* restoreOriginalContents(arg), arg the result of turn i, with editor a active.
restoreOriginalContents(i, a) ==
    LET target == chat[i].result.refactoringTarget
        p == target.documentPath
        originalContent == originalDocs[p]
    IN  IF HasOriginalContent(originalContent)
        THEN \E diagnostics \in DiagnosticSets, success \in BOOLEAN :
             /\ capturedDiagnostics' = captureDiagnosticsForDocument(diagnostics)
             /\ active' = FileEditor(p)
             /\ docText' = IF success THEN [docText EXCEPT ![p] = originalContent.text]
                           ELSE docText
             /\ docVersion' = IF success THEN [docVersion EXCEPT ![p] = @ + 1] ELSE docVersion
             /\ LET t2 == IF success THEN originalContent.text ELSE docText[p] IN
                selection' = [selection EXCEPT ![p] =
                    Sel(ValidatePosition(t2, TargetSelection(target).start),
                        ValidatePosition(t2, TargetSelection(target).end))]
             /\ chat' = [DisturbChat(i) EXCEPT
                            ![i].restore = IF success THEN "restored" ELSE "failed"]
        ELSE /\ active' = a
             /\ chat' = [chat EXCEPT ![i].restore = "nothing"]
             /\ UNCHANGED <<docText, docVersion, selection, capturedDiagnostics>>

\* suggestAnotherRefactoringCommand(arg), arg the result of the 'Suggest Another'
\* button of turn i.
suggestAnotherOf(i) ==
    /\ queue = "none"
    /\ req.pc = "idle"
    /\ ~picker.open
    /\ ANOTHER_REFACTORING \in chat[i].buttons
    /\ restoreOriginalContents(i, closeDiffEditorIfActive(active))
    /\ queue' = CHAT_COMMAND_SUGGEST_ANOTHER
    /\ msg' = MsgNone
    /\ UNCHANGED <<originalDocs, provider, req, picker, edits, limits, extractor, prompt, preview, identity>>

suggestAnotherRefactoringCommand == \E i \in DOMAIN chat : suggestAnotherOf(i)

\* suggestNextRefactoringCommand(arg): the 'Suggest Next' button of a turn.
suggestNextRefactoringCommand ==
    /\ queue = "none"
    /\ req.pc = "idle"
    /\ ~picker.open
    /\ \E i \in DOMAIN chat : NEXT_REFACTORING \in chat[i].buttons
    /\ active' = closeDiffEditorIfActive(active)
    /\ queue' = CHAT_COMMAND_SUGGEST_NEXT
    /\ msg' = MsgNone
    /\ UNCHANGED <<docText, docVersion, selection, originalDocs, capturedDiagnostics,
                   provider, chat, req, picker, edits, limits, extractor, prompt, preview, identity>>

Next ==
    \/ UserEdit
    \/ UserSelect
    \/ UserCloseEditor
    \/ UserOpenEditor
    \/ UserClosePreview
    \/ UserChat
    \/ HandlerStart
    \/ StreamFragment
    \/ StreamEnd
    \/ PickHighlight
    \/ PickConfirm
    \/ PickCancel
    \/ suggestRefactoringAction
    \/ showPreview
    \/ applyRefactoring
    \/ suggestAnotherRefactoringCommand
    \/ suggestNextRefactoringCommand

Spec == Init /\ [][Next]_vars

\* The program while the user takes no step in the editor.
NextFollowUp ==
    \/ UserClosePreview
    \/ UserChat
    \/ HandlerStart
    \/ StreamFragment
    \/ StreamEnd
    \/ PickHighlight
    \/ PickConfirm
    \/ PickCancel
    \/ suggestRefactoringAction
    \/ showPreview
    \/ applyRefactoring
    \/ suggestAnotherRefactoringCommand
    \/ suggestNextRefactoringCommand

SpecFollowUp == InitFollowUp /\ [][NextFollowUp]_vars

\* The program while the user takes no step in the editor and may cancel a
\* request.
NextCancel ==
    \/ NextFollowUp
    \/ CancelRequest

SpecCancel == InitCancel /\ [][NextCancel]_vars

\* One request, and views that carry a refactoringTarget of foreign make.
InitForeign == InitWith(MaxRequests, 0, FALSE)

NextForeign ==
    \/ NextFollowUp
    \/ UserOpenForeignView

SpecForeign == InitForeign /\ [][NextForeign]_vars

\* Two documents: the requests and commands of NextFollowUp, and the user
\* moving between the two editors.
NextTwoDocs ==
    \/ NextFollowUp
    \/ UserSwitchEditor

SpecTwoDocs == InitTwoDocs /\ [][NextTwoDocs]_vars

\* One document, wholly selected in the active editor, and a chain of requests:
\* a suggestion, its apply, its revert with the follow-up request, and one
\* request more; the user takes no step in the editor.
InitChain ==
    /\ InitWith(MaxChain, 0, FALSE)
    /\ docText[MainPath] = <<"a">>
    /\ ~IsEmptySel(selection[MainPath])
    /\ active = FileEditor(MainPath)

NextChain ==
    \/ UserChat
    \/ HandlerStart
    \/ StreamFragment
    \/ StreamEnd
    \/ showPreview
    \/ applyRefactoring
    \/ suggestAnotherRefactoringCommand

SpecChain == InitChain /\ [][NextChain]_vars

\* ------------------------------------------------- the extractor on its own
\* Lines of a markdown answer: a fence, a line of code or prose, and a line of
\* code that holds three backquotes (as the source of this extension does, in
\* its regular expression), and a line of code with a dot in front of it.  The
\* language a fence may name plays no part.
FenceLine == <<BT, BT, BT>>
PlainLine == <<"x">>
QuotingLine == <<"q", BT, BT, BT>>
DotLine == <<".", "x">>
MarkdownLines == {FenceLine, PlainLine, QuotingLine, DotLine}
Markdowns == {JoinLines(ls) : ls \in SeqsUpTo(MarkdownLines, MaxMarkdownLines) \ {<<>>}}

InitExtract ==
    /\ docText = [p \in {MainPath} |-> <<>>]
    /\ docVersion = [p \in {MainPath} |-> 1]
    /\ selection = [p \in {MainPath} |-> NoSel]
    /\ active = NoEditor
    /\ originalDocs = [p \in {MainPath} |-> NoSaved]
    /\ capturedDiagnostics = <<>>
    /\ provider = [originalContent |-> <<>>, refactoredContent |-> <<>>, fileExtension |-> ""]
    /\ chat = <<>>
    /\ queue = "none"
    /\ req = IdleReq
    /\ picker = NoPicker
    /\ msg = MsgNone
    /\ edits = 0
    /\ limits = [requests |-> 0, steps |-> 0, long |-> FALSE]
    /\ \E m \in Markdowns : extractor = [NoExtraction EXCEPT !.markdown = m]
    /\ prompt = NoPrompt
    /\ preview = NoPreview
    /\ identity = NoIdentity

\* showPreview's first statement: the last code block of the answer.
ExtractCodeBlock ==
    /\ extractor.pc = "idle"
    /\ extractor' = [extractor EXCEPT !.pc = "block",
                        !.codeBlock = extractLastMarkdownCodeBlock(extractor.markdown)]
    /\ UNCHANGED <<docText, docVersion, selection, active, originalDocs, capturedDiagnostics,
                   provider, chat, queue, req, picker, msg, edits, limits, prompt, preview, identity>>

\* showPreview's third statement: the block without its fence lines.
StripFenceLines ==
    /\ extractor.pc = "block"
    /\ Len(extractor.codeBlock) > 0
    /\ extractor' = [extractor EXCEPT !.pc = "done",
                        !.refactoredCode = removeFirstAndLastLine(extractor.codeBlock)]
    /\ UNCHANGED <<docText, docVersion, selection, active, originalDocs, capturedDiagnostics,
                   provider, chat, queue, req, picker, msg, edits, limits, prompt, preview, identity>>

NextExtract ==
    \/ ExtractCodeBlock
    \/ StripFenceLines

SpecExtract == InitExtract /\ [][NextExtract]_vars
\* --------------------------------------- the token budget (makeRequest with
\* the budget check, src/unnamed/part_006)
MAX_TOKENS == 4000
MsgTooLong == "The selected range is too long. Please make the selection smaller."

\* A message of the prompt: its role, the number of tokens of its content, and
\* whether the encoder encodes the content (encode throws on a content it
\* refuses, such as one that holds a special token).
Message(role, tokens, encodes) == [role |-> role, tokens |-> tokens, encodes |-> encodes]
TokenCounts == {1, MAX_TOKENS \div 2, MAX_TOKENS - 1}
Messages ==
    {Message(r, n, e) : r \in {"system", "assistant", "user"}, n \in TokenCounts, e \in BOOLEAN}
MessagesOf(role) == {m \in Messages : m.role = role}

\* The prompts the suggest... functions build: a system message, the assistant
\* messages addHistoryToMessages appends for the earlier response turns (none
\* outside suggestAnotherRefactoring), and the user message with the code.
Histories == SeqsUpTo(MessagesOf("assistant"), MaxMessages - 2)
Prompts ==
    {<<s>> \o h \o <<u>> : s \in MessagesOf("system"), h \in Histories, u \in MessagesOf("user")}

\* countTokensInMessages: the lengths of the encodings are added up message by
\* message; when encode throws, the catch block frees the encoder and the count
\* reached so far is returned.
RECURSIVE countTokensInMessages(_)
countTokensInMessages(messages) ==
    IF Len(messages) = 0 THEN 0
    ELSE IF ~Head(messages).encodes THEN 0
    ELSE Head(messages).tokens + countTokensInMessages(Tail(messages))

InitBudget ==
    /\ docText = [p \in {MainPath} |-> <<>>]
    /\ docVersion = [p \in {MainPath} |-> 1]
    /\ selection = [p \in {MainPath} |-> NoSel]
    /\ active = NoEditor
    /\ originalDocs = [p \in {MainPath} |-> NoSaved]
    /\ capturedDiagnostics = <<>>
    /\ provider = [originalContent |-> <<>>, refactoredContent |-> <<>>, fileExtension |-> ""]
    /\ chat = <<>>
    /\ queue = "none"
    /\ req = IdleReq
    /\ picker = NoPicker
    /\ msg = MsgNone
    /\ edits = 0
    /\ limits = [requests |-> 0, steps |-> 0, long |-> FALSE]
    /\ extractor = NoExtraction
    /\ \E m \in Prompts : prompt = [NoPrompt EXCEPT !.pc = "built", !.messages = m]
    /\ preview = NoPreview
    /\ identity = NoIdentity

\* makeRequest up to the request to the language model: over budget, the user
\* is told and NO_REFACTORING_RESULT returned; else the request is sent.
makeRequest ==
    /\ prompt.pc = "built"
    /\ LET tokens == countTokensInMessages(prompt.messages)
       IN  IF tokens > MAX_TOKENS
           THEN prompt' = [prompt EXCEPT !.pc = "refused", !.told = MsgTooLong]
           ELSE prompt' = [prompt EXCEPT !.pc = "sent", !.sent = TRUE]
    /\ UNCHANGED <<docText, docVersion, selection, active, originalDocs, capturedDiagnostics,
                   provider, chat, queue, req, picker, msg, edits, limits, extractor, preview, identity>>

NextBudget == makeRequest

SpecBudget == InitBudget /\ [][NextBudget]_vars

\* ------------------------------------------------- showPreview, step by step
\* What showPreview may be called with: the original code, the refactored code
\* and the extension of the target's path; and the URIs of the scheme
\* refactoring-preview the host may ask the provider for.
FileExtensions == {".ts", ".js", ""}
Artifacts ==
    {[original |-> o, refactored |-> r, ext |-> e] :
        o \in {<<"a">>, <<"a", "a">>}, r \in {<<"x">>, <<"y">>}, e \in FileExtensions}
PreviewUris == {n \o e : n \in {"original", "refactored", "other"}, e \in FileExtensions}

Stmt(op, uri, artifact) == [op |-> op, uri |-> uri, artifact |-> artifact]

\* The statements in another order: both notifications, then the content.
showPreviewNotifyingFirst(arg) ==
    << Stmt("update", "original" \o arg.ext, arg),
       Stmt("update", "refactored" \o arg.ext, arg),
       Stmt("updateContent", "", arg),
       Stmt("vscode.diff", "refactored" \o arg.ext, arg) >>

\* showPreview from previewContentProvider.updateContent to vscode.diff, for a
\* result whose last code block is not empty.
showPreviewBody(arg) ==
    << Stmt("updateContent", "", arg),
       Stmt("update", "original" \o arg.ext, arg),
       Stmt("update", "refactored" \o arg.ext, arg),
       Stmt("vscode.diff", "refactored" \o arg.ext, arg) >>

\* The provider's fields after a statement: only updateContent assigns them.
ProviderAfter(st, pr) ==
    IF st.op = "updateContent"
    THEN updateContent(st.artifact.original, st.artifact.refactored, st.artifact.ext)
    ELSE pr

\* RefactoringPreviewContentProvider.update: _onDidChange fires the URI.
FiredAfter(st, fired) == IF st.op = "update" THEN Append(fired, st.uri) ELSE fired

InitPreview ==
    /\ docText = [p \in {MainPath} |-> <<>>]
    /\ docVersion = [p \in {MainPath} |-> 1]
    /\ selection = [p \in {MainPath} |-> NoSel]
    /\ active = NoEditor
    /\ originalDocs = [p \in {MainPath} |-> NoSaved]
    /\ capturedDiagnostics = <<>>
    /\ provider = [originalContent |-> <<>>, refactoredContent |-> <<>>, fileExtension |-> ""]
    /\ chat = <<>>
    /\ queue = "none"
    /\ req = IdleReq
    /\ picker = NoPicker
    /\ msg = MsgNone
    /\ edits = 0
    /\ limits = [requests |-> 0, steps |-> 0, long |-> FALSE]
    /\ extractor = NoExtraction
    /\ prompt = NoPrompt
    /\ preview = NoPreview
    /\ identity = NoIdentity

\* The 'Show Diff & Apply' button calls showPreview with a result.
showPreviewCall ==
    /\ preview.todo = <<>>
    /\ preview.count < MaxPreviews
    /\ \E arg \in Artifacts :
          preview' = [preview EXCEPT !.todo = showPreviewBody(arg), !.arg = arg,
                                     !.fired = <<>>, !.log = <<>>, !.count = @ + 1]
    /\ UNCHANGED <<docText, docVersion, selection, active, originalDocs, capturedDiagnostics,
                   provider, chat, queue, req, picker, msg, edits, limits, extractor, prompt, identity>>

\* showPreview runs its next statement.
showPreviewStep ==
    /\ preview.todo # <<>>
    /\ LET st == Head(preview.todo) IN
       /\ provider' = ProviderAfter(st, provider)
       /\ preview' = [preview EXCEPT
             !.todo = Tail(@), !.log = Append(@, st), !.fired = FiredAfter(st, @),
             !.current = IF st.op = "updateContent" THEN st.artifact ELSE @,
             !.earlier = IF st.op = "updateContent" THEN preview.current ELSE @]
    /\ UNCHANGED <<docText, docVersion, selection, active, originalDocs, capturedDiagnostics,
                   chat, queue, req, picker, msg, edits, limits, extractor, prompt, identity>>

\* The host calls provideTextDocumentContent: for any URI while showPreview is
\* not running, and from within _onDidChange.fire for the URI just fired.
ResolveContent ==
    /\ \E uri \in PreviewUris :
          /\ IF preview.todo = <<>> THEN TRUE
             ELSE /\ Len(preview.log) > 0
                  /\ preview.log[Len(preview.log)].op = "update"
                  /\ preview.log[Len(preview.log)].uri = uri
          /\ preview' = [preview EXCEPT
                !.served = [uri |-> uri,
                            content |-> provideTextDocumentContent(provider, uri)]]
    /\ UNCHANGED <<docText, docVersion, selection, active, originalDocs, capturedDiagnostics,
                   provider, chat, queue, req, picker, msg, edits, limits, extractor, prompt, identity>>

NextPreview ==
    \/ showPreviewCall
    \/ showPreviewStep
    \/ ResolveContent

SpecPreview == InitPreview /\ [][NextPreview]_vars

\* ------------------------------------- the target through the preview's URI
\* Characters of a document path: a letter, two digits, and the characters
\* that have a meaning of their own in a URI or in form encoding.
PathChars == {"x", "2", "0", "%", " ", "+", "&", "=", "#"}
TargetPaths == {<<"/">> \o q : q \in SeqsUpTo(PathChars, MaxPathLen)}
Targets ==
    {[documentPath |-> q, documentVersion |-> v,
      selectionStartLine |-> 0, selectionStartCharacter |-> 0,
      selectionEndLine |-> l, selectionEndCharacter |-> 1] :
        q \in TargetPaths, v \in 1..2, l \in 0..1}

\* JSON text, character by character.  The names of the members stand in
\* front of their values in the text the program handles; they are letters and
\* digits, which no encoding of this section changes, and are left out here.
Quote == "\""
Digits == <<"0", "1", "2", "3", "4", "5", "6", "7", "8", "9">>
DigitValue(c) == CHOOSE n \in 0..9 : Digits[n + 1] = c
\* A control character, which a JSON string may not hold unescaped.
ControlChar == "ctl"

\* JSON.stringify of a target.  No path of TargetPaths holds a quote, a
\* backslash or a control character, so no character of it is escaped.
stringify(target) ==
    <<"{", Quote>> \o target.documentPath \o
    <<Quote, ",", Digits[target.documentVersion + 1],
      ",", Digits[target.selectionStartLine + 1],
      ",", Digits[target.selectionStartCharacter + 1],
      ",", Digits[target.selectionEndLine + 1],
      ",", Digits[target.selectionEndCharacter + 1], "}">>

\* What stands for a call that threw.
ThrownTarget == [NoTarget EXCEPT !.documentPath = <<>>, !.documentVersion = -1]

\* JSON.parse of a text into a target; ThrownTarget for a SyntaxError.
parse(text) ==
    LET close == IndexOfFrom(text, Quote, 3)
        q == SubSeq(text, 3, close - 1)
        rest == SubSeq(text, close + 1, Len(text))
        DigitSet == {Digits[n] : n \in DOMAIN Digits}
    IN  IF /\ Len(text) >= 3
           /\ text[1] = "{"
           /\ text[2] = Quote
           /\ close # 0
           /\ \A i \in DOMAIN q : q[i] # ControlChar
           /\ Len(rest) = 11
           /\ \A i \in {1, 3, 5, 7, 9} : rest[i] = "," /\ rest[i + 1] \in DigitSet
           /\ rest[11] = "}"
        THEN [documentPath |-> q, documentVersion |-> DigitValue(rest[2]),
              selectionStartLine |-> DigitValue(rest[4]),
              selectionStartCharacter |-> DigitValue(rest[6]),
              selectionEndLine |-> DigitValue(rest[8]),
              selectionEndCharacter |-> DigitValue(rest[10])]
        ELSE ThrownTarget

\* The escape sequences of the characters in play that encodeURIComponent
\* escapes; letters and digits it leaves as they are.
PercentCodes ==
    (" " :> <<"2", "0">>) @@ (Quote :> <<"2", "2">>) @@ ("#" :> <<"2", "3">>) @@
    ("%" :> <<"2", "5">>) @@ ("&" :> <<"2", "6">>) @@ ("+" :> <<"2", "B">>) @@
    ("," :> <<"2", "C">>) @@ ("/" :> <<"2", "F">>) @@ ("=" :> <<"3", "D">>) @@
    ("{" :> <<"7", "B">>) @@ ("}" :> <<"7", "D">>)
HexDigits == {"0", "2", "3", "5", "6", "7", "B", "C", "D", "F"}

RECURSIVE encodeURIComponent(_)
encodeURIComponent(s) ==
    IF s = <<>> THEN <<>>
    ELSE (IF Head(s) \in DOMAIN PercentCodes
          THEN <<"%">> \o PercentCodes[Head(s)]
          ELSE <<Head(s)>>) \o encodeURIComponent(Tail(s))

\* The character an escape sequence stands for.  The sequences that the digits
\* of a path can form beside those of PercentCodes, 00 and 02, stand for
\* control characters.
CharOfCode(h) ==
    IF \E c \in DOMAIN PercentCodes : PercentCodes[c] = h
    THEN CHOOSE c \in DOMAIN PercentCodes : PercentCodes[c] = h
    ELSE ControlChar

\* An escape sequence starts at position i of s.
EscapeAt(s, i) ==
    /\ s[i] = "%"
    /\ i + 2 <= Len(s)
    /\ s[i + 1] \in HexDigits
    /\ s[i + 2] \in HexDigits

\* Percent-decoding: every escape sequence is replaced by its character, and a
\* percent sign that starts none is kept.
RECURSIVE PercentDecode(_)
PercentDecode(s) ==
    IF s = <<>> THEN <<>>
    ELSE IF EscapeAt(s, 1)
    THEN <<CharOfCode(<<s[2], s[3]>>)>> \o PercentDecode(SubSeq(s, 4, Len(s)))
    ELSE <<Head(s)>> \o PercentDecode(Tail(s))

\* decodeURIComponent throws a URIError for a percent sign that starts no
\* escape sequence, and percent-decodes otherwise.
URIErrorIn(s) == \E i \in DOMAIN s : s[i] = "%" /\ ~EscapeAt(s, i)
decodeURIComponent(s) == PercentDecode(s)

\* Decoding of a name or a value by URLSearchParams: a plus sign is a space,
\* then percent-decoding.
FormDecode(s) == PercentDecode([i \in DOMAIN s |-> IF s[i] = "+" THEN " " ELSE s[i]])

\* new URLSearchParams(query).get(name): the value of the first pair, of the
\* pairs that ampersands separate, whose name is name; <<>> stands for null.
RECURSIVE URLSearchParamsGet(_, _)
URLSearchParamsGet(query, name) ==
    LET amp == IndexOfFrom(query, "&", 1)
        pair == IF amp = 0 THEN query ELSE SubSeq(query, 1, amp - 1)
        eq == IndexOfFrom(pair, "=", 1)
        key == IF eq = 0 THEN pair ELSE SubSeq(pair, 1, eq - 1)
        value == IF eq = 0 THEN <<>> ELSE SubSeq(pair, eq + 1, Len(pair))
    IN  IF query = <<>> THEN <<>>
        ELSE IF FormDecode(key) = name THEN FormDecode(value)
        ELSE IF amp = 0 THEN <<>>
        ELSE URLSearchParamsGet(SubSeq(query, amp + 1, Len(query)), name)

\* The name of the query parameter, one character of the model.
TargetParam == <<"refactoringTarget">>

InitIdentity ==
    /\ docText = [p \in {MainPath} |-> <<>>]
    /\ docVersion = [p \in {MainPath} |-> 1]
    /\ selection = [p \in {MainPath} |-> NoSel]
    /\ active = NoEditor
    /\ originalDocs = [p \in {MainPath} |-> NoSaved]
    /\ capturedDiagnostics = <<>>
    /\ provider = [originalContent |-> <<>>, refactoredContent |-> <<>>, fileExtension |-> ""]
    /\ chat = <<>>
    /\ queue = "none"
    /\ req = IdleReq
    /\ picker = NoPicker
    /\ msg = MsgNone
    /\ edits = 0
    /\ limits = [requests |-> 0, steps |-> 0, long |-> FALSE]
    /\ extractor = NoExtraction
    /\ prompt = NoPrompt
    /\ preview = NoPreview
    /\ \E target \in Targets : identity = [NoIdentity EXCEPT !.target = target]

\* showPreview annotates the URI of the refactored side with the target that
\* createRefactoringResult serialized; the host keeps the query as it is given.
showPreviewAnnotate ==
    /\ identity.pc = "idle"
    /\ LET refactoringTarget == stringify(identity.target)
           query == TargetParam \o <<"=">> \o encodeURIComponent(refactoringTarget)
       IN  identity' = [identity EXCEPT !.pc = "annotated", !.query = query]
    /\ UNCHANGED <<docText, docVersion, selection, active, originalDocs, capturedDiagnostics,
                   provider, chat, queue, req, picker, msg, edits, limits, extractor, prompt,
                   preview>>

\* applyRefactoring, from the active editor's URI to the decoded annotation.
applyRefactoringDecode ==
    /\ identity.pc = "annotated"
    /\ LET annotationString == URLSearchParamsGet(identity.query, TargetParam)
       IN  IF annotationString = <<>>
           THEN /\ identity' = [identity EXCEPT !.pc = "applied"]
                /\ msg' = MsgNoTarget
           ELSE IF URIErrorIn(annotationString)
           THEN /\ identity' = [identity EXCEPT !.pc = "applied", !.annotation = ThrownTarget]
                /\ msg' = Thrown
           ELSE LET annotation == parse(decodeURIComponent(annotationString))
                IN  /\ identity' = [identity EXCEPT !.pc = "applied", !.annotation = annotation]
                    /\ msg' = IF annotation = ThrownTarget THEN Thrown ELSE MsgNone
    /\ UNCHANGED <<docText, docVersion, selection, active, originalDocs, capturedDiagnostics,
                   provider, chat, queue, req, picker, edits, limits, extractor, prompt,
                   preview>>

NextIdentity ==
    \/ showPreviewAnnotate
    \/ applyRefactoringDecode

SpecIdentity == InitIdentity /\ [][NextIdentity]_vars

\* ================================================================ properties
\* The document a target names, and whether apply runs on the diff view.
TargetPath == active.target.documentPath
ApplyOnPreview == applyRefactoring /\ active.kind = "diff"

\* The turns makeRequest answered: the others carry NO_REFACTORING_RESULT and
\* no capture.
Answered(i) == chat[i].command \in ChatCommands /\ chat[i].capVersion > 0

\* C1: when the version of the named document differs from the version in the
\* target, Apply changes neither the document (text, version) nor the saved
\* originals nor the target, and shows the message that the contents changed.
C1_StaleApplyChangesNothing ==
    [][(ApplyOnPreview /\ docVersion[TargetPath] # active.target.documentVersion)
        => /\ docText' = docText
           /\ docVersion' = docVersion
           /\ originalDocs' = originalDocs
           /\ chat' = chat
           /\ msg' = MsgStale]_vars

\* C1's case: the user has typed, Apply has answered with the stale message and
\* nothing is saved.
C1_StaleApplyReached ==
    /\ msg = MsgStale
    /\ edits > 0
    /\ docVersion[MainPath] = 2
    /\ ~originalDocs[MainPath].has

\* C2: when the document has been edited since originalCode was read (its
\* version is no longer the version of that moment), Apply of that suggestion,
\* unless the host refuses the edit, leaves the document as it is and shows the
\* stale message.
C2_EditSinceCaptureIsStale ==
    [][(ApplyOnPreview /\ docVersion[TargetPath] # chat[active.turn].capVersion
            /\ msg' # MsgApplyFailed)
        => (docText' = docText /\ msg' = MsgStale)]_vars

\* C3: Apply with an unchanged version, when the host performs the edit, leaves
\* the text before the target range, then the text of the after pane, then the
\* text after the target range.
C3_ApplyReplacesTargetRange ==
    [][(ApplyOnPreview /\ docVersion[TargetPath] = active.target.documentVersion
            /\ msg' = MsgNone)
        => LET t == docText[TargetPath]
               tg == active.target
               from == OffsetAt(t, Pos(tg.selectionStartLine, tg.selectionStartCharacter))
               to == OffsetAt(t, Pos(tg.selectionEndLine, tg.selectionEndCharacter))
           IN  /\ docText'[TargetPath] = SubSeq(t, 1, from) \o active.text \o SubSeq(t, to + 1, Len(t))
               /\ docVersion'[TargetPath] = docVersion[TargetPath] + 1]_vars

\* C3's case: a suggestion has been applied to a range that ends inside its line.
C3_ApplyInsideLineReached ==
    \E i \in DOMAIN chat :
        /\ chat[i].applied
        /\ chat[i].result.refactoringTarget.selectionEndCharacter > 0
        /\ docVersion[MainPath] = 2
        /\ originalDocs[MainPath].has

\* C4: the target of every turn that offers a preview and whose capture the
\* user did not disturb has start column 0 and end column the length of its end line, and
\* the text of the target range is originalCode.
C4_TargetUsesFullLines ==
    \A i \in DOMAIN chat :
        (PREVIEW_REFACTORING \in chat[i].buttons /\ ~chat[i].disturbed)
        => LET tg == chat[i].result.refactoringTarget
           IN  /\ tg.selectionStartCharacter = 0
               /\ tg.selectionEndCharacter = LineLength(chat[i].capText, tg.selectionEndLine)
               /\ GetTextRange(chat[i].capText,
                               Sel(Pos(tg.selectionStartLine, tg.selectionStartCharacter),
                                   Pos(tg.selectionEndLine, tg.selectionEndCharacter)))
                  = chat[i].result.originalCode

\* C5: Revert of an applied suggestion, with nothing else having touched the
\* document since its capture and the host performing the edit, leaves the text
\* and the selection of the capture.
C5_RevertRoundTrip ==
    [][\A i \in DOMAIN chat :
        (suggestAnotherOf(i) /\ chat[i].applied /\ ~chat[i].disturbed
            /\ chat'[i].restore # "failed")
        => LET p == chat[i].result.refactoringTarget.documentPath
           IN  docText'[p] = chat[i].capText /\ selection'[p] = chat[i].capSelection]_vars

\* C6: 'suggest another' for a suggestion that was never applied leaves the
\* text of every document unchanged.
C6_RevertOfUnappliedKeepsText ==
    [][\A i \in DOMAIN chat :
        (suggestAnotherOf(i) /\ ~chat[i].applied) => docText' = docText]_vars

\* C7: with no saved original for the target's path, Revert changes neither the
\* text, the version, the selection nor the captured diagnostics, and shows no
\* message.
C7_RevertWithoutHistoryIsNoOp ==
    [][\A i \in DOMAIN chat :
        (suggestAnotherOf(i)
            /\ ~originalDocs[chat[i].result.refactoringTarget.documentPath].has)
        => /\ docText' = docText
           /\ docVersion' = docVersion
           /\ selection' = selection
           /\ capturedDiagnostics' = capturedDiagnostics
           /\ msg' = MsgNone]_vars

\* C7's case: Revert ran for a suggestion on a non-empty document and found
\* nothing saved.
C7_RevertWithoutHistoryReached ==
    \E i \in DOMAIN chat :
        /\ chat[i].restore = "nothing"
        /\ ~originalDocs[chat[i].result.refactoringTarget.documentPath].has
        /\ docText[MainPath] # <<>>
        /\ queue = CHAT_COMMAND_SUGGEST_ANOTHER

C9_NoBlockNoPreviewButton ==
    \A i \in DOMAIN chat :
        (/\ chat[i].result.suggestedRefactoring # <<>>
         /\ extractLastMarkdownCodeBlock(chat[i].result.suggestedRefactoring) = <<>>)
        => PREVIEW_REFACTORING \notin chat[i].buttons

\* A line that opens a fenced block begins with three backquotes; the line that
\* closes it holds three backquotes and nothing else.
OpensFence(line) == Len(line) >= 3 /\ SubSeq(line, 1, 3) = FenceLine
ClosesFence(line) == line = FenceLine

\* The interiors of the fenced blocks of the lines ls from line k on, open being
\* the line of the fence that is open, 0 if none is.
RECURSIVE FencedInteriors(_, _, _)
FencedInteriors(ls, k, open) ==
    IF k > Len(ls) THEN <<>>
    ELSE IF open = 0
    THEN FencedInteriors(ls, k + 1, IF OpensFence(ls[k]) THEN k ELSE 0)
    ELSE IF ClosesFence(ls[k])
    THEN <<JoinLines(SubSeq(ls, open + 1, k - 1))>> \o FencedInteriors(ls, k + 1, 0)
    ELSE FencedInteriors(ls, k + 1, open)

\* C10: for a text with two or more fenced code blocks, the extractor returns
\* the interior of the last of them.
C10_LastBlockInterior ==
    LET blocks == FencedInteriors(SplitLines(extractor.markdown), 1, 0)
    IN  (extractor.pc = "done" /\ Len(blocks) >= 2)
        => extractor.refactoredCode = blocks[Len(blocks)]

\* The interior of a located block: what stands after the line of the opening
\* fence and before the three closing backquotes, without the line break that
\* ends its last line.
InteriorOfBlock(b) ==
    LET first == IndexOfFrom(b, NL, 1)
        body == SubSeq(b, first + 1, Len(b) - 3)
    IN  IF first = 0 THEN <<>>
        ELSE IF Len(body) > 0 /\ body[Len(body)] = NL THEN SubSeq(body, 1, Len(body) - 1)
        ELSE body

C12_OnlyApplyAndRevertWrite ==
    [][(\/ UserChat
        \/ HandlerStart
        \/ StreamFragment
        \/ StreamEnd
        \/ PickHighlight
        \/ PickConfirm
        \/ PickCancel
        \/ suggestRefactoringAction
        \/ showPreview
        \/ UserClosePreview
        \/ suggestNextRefactoringCommand)
        => (docText' = docText /\ docVersion' = docVersion)]_vars

\* C12's case: a preview was opened and then closed by 'suggest next', and the
\* document is as it was first.
C12_PreviewClosedUntouchedReached ==
    /\ Len(chat) = 1
    /\ provider.refactoredContent # <<>>
    /\ active.kind = "file"
    /\ queue = CHAT_COMMAND_SUGGEST_NEXT
    /\ docVersion[MainPath] = 1
    /\ edits = 0

\* C13: a request cancelled while its answer was streamed ends with no
\* suggestion text and no button, no diff view is open for it and it has not
\* been applied.
C13_CancelledRequestLeavesNothing ==
    \A i \in DOMAIN chat :
        chat[i].cancelled
        => /\ chat[i].result.suggestedRefactoring = <<>>
           /\ chat[i].buttons = {}
           /\ ~(active.kind = "diff" /\ active.turn = i)
           /\ ~chat[i].applied

\* The tokens of a prompt: those of all its messages.
RECURSIVE PromptTokens(_)
PromptTokens(messages) ==
    IF Len(messages) = 0 THEN 0 ELSE Head(messages).tokens + PromptTokens(Tail(messages))

\* C14: a prompt of more tokens than the budget is not sent to the language
\* model: the user is told that the selection is too long and the request ends
\* refused.
C14_OverBudgetIsRefused ==
    (prompt.pc \notin {"idle", "built"} /\ PromptTokens(prompt.messages) > MAX_TOKENS)
    => (prompt.pc = "refused" /\ ~prompt.sent /\ prompt.told = MsgTooLong)

\* The whole document: from line 0, column 0 to the end of the last line.
EntireDocument(t) ==
    LET ls == SplitLines(t) IN Sel(Pos(0, 0), Pos(Len(ls) - 1, Len(ls[Len(ls)])))

\* C15: when selectRange, called on an empty selection by the handler or by the
\* editor action, opens no quick pick because no outline is available or no
\* symbol of the outline tree encloses the cursor, it leaves the whole document
\* selected and returns true.
C15_NoSymbolSelectsAll ==
    [][((HandlerStart \/ suggestRefactoringAction)
            /\ picker'.outcome \in {"false", "all"}
            /\ picker'.outline \in {"none", "tree"})
        => /\ picker'.outcome = "all"
           /\ selection'[active.path] = EntireDocument(docText[active.path])]_vars

\* C16: the quick pick remembers the selection the editor had when it opened;
\* when the user cancels it, whatever was highlighted meanwhile, the editor has
\* that selection again, selectRange returns false, and its caller stops: the
\* handler returns the sentinel result with no request in flight, the editor
\* action sends no chat request.
C16_CancelRestoresSelection ==
    [][/\ (~picker.open /\ picker'.open)
            => picker'.initialSelection = selection[picker'.path]
       /\ (picker.open /\ picker'.outcome = "cancelled")
            => /\ selection'[picker.path] = picker.initialSelection
               /\ queue' = "none"
               /\ req'.pc = "idle"
               /\ docText' = docText
               /\ IF picker.caller = "handler"
                  THEN /\ Len(chat') = Len(chat) + 1
                       /\ chat'[Len(chat')].result = NO_REFACTORING_RESULT
                       /\ chat'[Len(chat')].buttons = {}
                  ELSE chat' = chat]_vars

\* The quick pick was cancelled after its second item had been highlighted, and
\* the editor shows the empty selection it had before.
C16_CancelAfterHighlightReached ==
    /\ picker.outcome = "cancelled"
    /\ picker.highlighted = 2
    /\ active.kind = "file"
    /\ IsEmptySel(selection[active.path])
    /\ Len(docText[active.path]) > 0

\* Range r contains position x; range r lies within range q.
RangeContains(r, x) == PosLE(r.start, x) /\ PosLE(x, r.end)
RangeWithin(r, q) == PosLE(q.start, r.start) /\ PosLE(r.end, q.end)

\* The symbols of an outline tree, at every depth.
RECURSIVE SymbolsOf(_)
SymbolsOf(symbols) ==
    IF Len(symbols) = 0 THEN {}
    ELSE {Head(symbols)} \cup SymbolsOf(Head(symbols).children) \cup SymbolsOf(Tail(symbols))

\* C17: the open quick pick offers exactly the symbols of the outline whose
\* ranges contain the cursor, innermost first: each item's range lies within
\* the range of every later item, and for the class with one method it offers
\* Method and then Class when the cursor is inside the method, Class alone
\* otherwise.
C17_ItemsInnermostFirst ==
    picker.open =>
        LET items == picker.items
            cursor == picker.initialSelection.end
            t == docText[picker.path]
            names == [k \in 1..Len(items) |-> items[k].name]
        IN  /\ Len(items) > 0
            /\ {items[k] : k \in 1..Len(items)}
                 = {sy \in SymbolsOf(ClassOutline(t).symbols) : RangeContains(sy.range, cursor)}
            /\ \A k \in 1..Len(items) : \A l \in k..Len(items) :
                  RangeWithin(items[k].range, items[l].range)
            /\ names = IF RangeContains(FirstLineRange(t), cursor)
                       THEN <<"Method", "Class">> ELSE <<"Class">>

\* The quick pick is open on a method that is strictly inside its class.
C17_MethodBeforeClassReached ==
    /\ picker.open
    /\ Len(picker.items) = 2
    /\ picker.items[1].name = "Method"
    /\ picker.items[1].range # picker.items[2].range

\* C18: when the user confirms the quick pick, after any sequence of highlights,
\* the editor's selection is the range of the item confirmed, selectRange
\* returns true and its caller goes on: the handler to its switch on the
\* command, the editor action to the chat request.
C18_ConfirmSelectsCandidate ==
    [][(picker.open /\ picker'.outcome = "confirmed")
        => /\ picker.highlighted \in 1..Len(picker.items)
           /\ selection'[picker.path] = picker.items[picker.highlighted].range
           /\ docText' = docText
           /\ IF picker.caller = "handler"
              THEN \/ req'.pc = "streaming" /\ req'.capSelection = selection'[picker.path]
                   \/ /\ req.command \in {CHAT_COMMAND_SUGGEST_NEXT, CHAT_COMMAND_SUGGEST_ANOTHER}
                      /\ msg' = MsgNoSuggestion
              ELSE queue' = NoCommand]_vars

\* The second item, the class, was highlighted and confirmed in a document
\* where the class is larger than its method.
C18_SecondItemConfirmedReached ==
    /\ picker.outcome = "confirmed"
    /\ picker.highlighted = 2
    /\ active.kind = "file"
    /\ selection[active.path] = WholeRange(docText[active.path])
    /\ WholeRange(docText[active.path]) # FirstLineRange(docText[active.path])

\* C19: applyRefactoring invoked with no active editor, or with an active editor
\* whose URI carries no refactoringTarget, shows the user a message and does
\* nothing else: no document, version or selection changes, no editor is
\* closed, and originalDocs is as it was.
C19_ApplyWithoutTargetOnlyReports ==
    [][(applyRefactoring /\ active.kind # "diff")
        => /\ msg' = (IF active.kind = "none" THEN MsgNoEditor ELSE MsgNoTarget)
           /\ docText' = docText
           /\ docVersion' = docVersion
           /\ selection' = selection
           /\ active' = active
           /\ originalDocs' = originalDocs
           /\ provider' = provider]_vars

\* Apply was invoked on the file's own editor while a suggestion with a preview
\* button was on offer, and answered that the editor suggests no refactoring.
C19_ApplyOnFileEditorReached ==
    /\ msg = MsgNoTarget
    /\ active.kind = "file"
    /\ \E i \in 1..Len(chat) : PREVIEW_REFACTORING \in chat[i].buttons

\* A step of the handler that finds nothing to refactor: no editor is active,
\* or the selection is empty and selectRange returns false, at once or when
\* the user cancels its quick pick.
NoActiveTargetStep ==
    \/ HandlerStart /\ (active.kind = "none" \/ picker'.outcome = "false")
    \/ picker.open /\ picker.caller = "handler" /\ picker'.outcome = "cancelled"

\* C20: a request that finds no editor, or an empty selection that selectRange
\* does not resolve, ends with NO_REFACTORING_RESULT and no buttons; no request
\* to the language model is in flight, and the documents, their versions,
\* originalDocs, the preview provider and the active editor are as before.
C20_NoActiveTargetChangesNothing ==
    [][NoActiveTargetStep
        => /\ Len(chat') = Len(chat) + 1
           /\ chat'[Len(chat')].result = NO_REFACTORING_RESULT
           /\ chat'[Len(chat')].buttons = {}
           /\ SubSeq(chat', 1, Len(chat)) = chat
           /\ req'.pc = "idle"
           /\ queue' = "none"
           /\ docText' = docText
           /\ docVersion' = docVersion
           /\ originalDocs' = originalDocs
           /\ provider' = provider
           /\ active' = active
           /\ capturedDiagnostics' = capturedDiagnostics]_vars

\* The handler returned the sentinel result for a non-empty document after
\* the user cancelled its quick pick.
C20_UnresolvedScopeReached ==
    /\ picker.outcome = "cancelled"
    /\ Len(chat) = 1
    /\ chat[1].result = NO_REFACTORING_RESULT
    /\ chat[1].msg = MsgNone
    /\ active.kind = "file"
    /\ Len(docText[active.path]) > 0

\* C21: a step of Apply or of Revert that changes a document's text is taken
\* only when the document's version is the one the step expects: for Apply the
\* version in the target, for the Revert of a turn the version the document
\* had right after that turn's Apply, one more than the version in the target.
C21_WritesAreVersionGated ==
    [][/\ (ApplyOnPreview /\ docText' # docText)
            => docVersion[TargetPath] = active.target.documentVersion
       /\ \A i \in DOMAIN chat :
            (suggestAnotherOf(i) /\ docText' # docText)
                => LET target == chat[i].result.refactoringTarget
                   IN  docVersion[target.documentPath] = target.documentVersion + 1]_vars

\* C22: when the symbol provider answers selectRange with a non-empty flat
\* list, whose entries have no children, no quick pick opens, the whole
\* document is selected and selectRange returns true.
C22_FlatOutlineSelectsAll ==
    [][((HandlerStart \/ suggestRefactoringAction) /\ picker'.outline = "flat")
        => /\ ~picker'.open
           /\ picker'.outcome = "all"
           /\ selection'[active.path] = EntireDocument(docText[active.path])]_vars

\* A prompt without the assistant messages of the earlier turns.
WithoutHistory(messages) == SelectSeq(messages, LAMBDA m : m.role # "assistant")

\* Every message of the prompt is encoded.
AllEncode(messages) == \A k \in 1..Len(messages) : messages[k].encodes

\* C23: a prompt that is over the budget with the assistant messages of the
\* earlier turns and within it without them is sent without them, and the user
\* is not told that the selection is too long.
C23_OverBudgetDropsHistory ==
    (/\ prompt.pc \notin {"idle", "built"}
     /\ AllEncode(prompt.messages)
     /\ PromptTokens(prompt.messages) > MAX_TOKENS
     /\ PromptTokens(WithoutHistory(prompt.messages)) <= MAX_TOKENS)
    => (prompt.pc = "sent" /\ prompt.sent /\ prompt.told # MsgTooLong)

\* The provider holds exactly the artifact a.
Holds(pr, a) ==
    pr = [originalContent |-> a.original, refactoredContent |-> a.refactored,
          fileExtension |-> a.ext]

\* C24: in a call of showPreview, when a change notification has fired the
\* provider already holds the call's original text, refactored text and
\* extension, and when the diff view has been requested the notifications for
\* the original and for the refactored URI have both fired before it.
C24_ContentThenNotifyThenDiff ==
    LET log == preview.log IN
    \A k \in 1..Len(log) :
        /\ log[k].op = "update"
              => /\ \E j \in 1..(k - 1) : log[j].op = "updateContent"
                 /\ Holds(provider, preview.arg)
        /\ log[k].op = "vscode.diff"
              => /\ \E j \in 1..(k - 1) :
                        log[j].op = "update" /\ log[j].uri = "original" \o preview.arg.ext
                 /\ \E j \in 1..(k - 1) :
                        log[j].op = "update" /\ log[j].uri = "refactored" \o preview.arg.ext
                 /\ Len(preview.fired) = 2

\* The second call of showPreview, for another artifact than the first, has
\* requested its diff view.
C24_SecondPreviewShownReached ==
    /\ preview.count = 2
    /\ preview.todo = <<>>
    /\ Len(preview.log) = 4
    /\ preview.log[4].op = "vscode.diff"
    /\ preview.earlier # preview.current
    /\ preview.earlier # NoArtifact

\* C25: whatever the provider holds, with extension E, the host is served the
\* original text for the URI path "original" followed by E, the refactored
\* text for "refactored" followed by E, and the text that says no content
\* could be provided for every other path, the two names with another
\* extension included.
C25_ResolutionByNameAndExtension ==
    [][preview'.served # preview.served
        => LET uri == preview'.served.uri
               content == preview'.served.content
           IN  \A n \in {"original", "refactored", "other"}, e \in FileExtensions :
                 uri = n \o e
                   => content = IF n = "original" /\ e = provider.fileExtension
                                THEN provider.originalContent
                                ELSE IF n = "refactored" /\ e = provider.fileExtension
                                THEN provider.refactoredContent
                                ELSE MsgNoContent]_vars

\* The host asked for original.js while the provider held a .ts artifact, and
\* was served the text that says no content could be provided.
C25_OtherExtensionReached ==
    /\ preview.served.uri = "original.js"
    /\ preview.served.content = MsgNoContent
    /\ provider.fileExtension = ".ts"
    /\ provider.originalContent # <<>>

\* C26: the provider always holds exactly the arguments of the latest
\* updateContent; what the host is served is the original or the refactored
\* text of those arguments or the text that says no content could be provided;
\* and the updateContent statement fires no change notification.
C26_SingleCurrentArtifact ==
    [][/\ Holds(provider', preview'.current)
       /\ preview'.served # preview.served
            => preview'.served.content
                 \in {preview.current.original, preview.current.refactored, MsgNoContent}
       /\ (Len(preview'.log) = Len(preview.log) + 1
             /\ preview'.log[Len(preview'.log)].op = "updateContent")
            => preview'.fired = preview.fired]_vars

\* After a second preview whose texts both differ from the first one's, the
\* host was served the second original text.
C26_SecondArtifactServedReached ==
    /\ preview.count = 2
    /\ preview.todo = <<>>
    /\ preview.earlier # NoArtifact
    /\ preview.earlier.original # preview.current.original
    /\ preview.earlier.refactored # preview.current.refactored
    /\ preview.served.uri = "original" \o preview.current.ext
    /\ preview.served.content = preview.current.original

\* A successful Apply: the version check passed and the host made the edit.
ApplySucceeds == ApplyOnPreview /\ msg' = MsgNone

\* C27: a successful Apply sets the originalDocs entry of the target's path to
\* the whole text the document had just before the edit, replacing whatever
\* the entry held, and leaves the entries of the other paths alone; no other
\* step changes originalDocs.
C27_HistoryHoldsTextBeforeLastApply ==
    [][IF ApplySucceeds
       THEN /\ originalDocs'[TargetPath] = Saved(docText[TargetPath])
            /\ \A q \in Paths \ {TargetPath} : originalDocs'[q] = originalDocs[q]
       ELSE originalDocs' = originalDocs]_vars

\* Two refactorings were applied to the first document: its entry holds the
\* text the first Apply left, no longer the text the document started with.
C27_EntryOverwrittenReached ==
    /\ originalDocs[MainPath].has
    /\ originalDocs[MainPath].text # <<"a">>
    /\ ~originalDocs[OtherPath].has
    /\ \A i \in DOMAIN chat : chat[i].applied
    /\ Len(chat) = 2

\* C28: when Apply passes the version check and the host's edit fails, so that
\* the document keeps its version, the user is shown the message that the
\* refactoring could not be applied, the document's text is as before, and
\* originalDocs is as before: the path's entry keeps its value or stays absent.
C28_FailedEditRecordsNothing ==
    [][(/\ ApplyOnPreview
        /\ docVersion[TargetPath] = active.target.documentVersion
        /\ docVersion' = docVersion)
        => /\ msg' = MsgApplyFailed
           /\ docText' = docText
           /\ originalDocs' = originalDocs]_vars

\* The host refused the edit of a preview that was up to date: the message is
\* shown, the document has the text it was captured with and no saved original.
C28_FailedEditReached ==
    /\ msg = MsgApplyFailed
    /\ active.kind = "file"
    /\ Len(chat) = 1
    /\ docText[active.path] = chat[1].capText
    /\ docVersion[active.path] = chat[1].capVersion
    /\ ~originalDocs[active.path].has

\* C29: Apply on a view whose refactoringTarget does not decode ends like Apply
\* on a view without a target: the user is shown a message, no exception leaves
\* the command, no document changes and originalDocs is as before.
C29_MalformedTargetIsRefused ==
    [][(applyRefactoring /\ active.kind = "diff" /\ active.target = MalformedTarget)
        => /\ msg' \in {MsgNoEditor, MsgNoTarget}
           /\ docText' = docText
           /\ docVersion' = docVersion
           /\ originalDocs' = originalDocs]_vars

\* The handler reads the selected text for the request it starts to stream.
CaptureStep == req.pc # "streaming" /\ req'.pc = "streaming"

\* C30: a follow-up request for another suggestion is issued after the revert:
\* when the 'Suggest Another' button of a turn issues it,
\* restoreOriginalContents has already run for that turn, and if it found saved
\* content and the host made the edit, the document has the saved text and the
\* editor the target's selection; and a request for another suggestion that
\* starts while an applied suggestion has a saved original (not empty, not
\* kept from the document by a failed edit) was preceded by a revert and
\* captures the document with the saved text.
C30_RevertBeforeReprompt ==
    [][/\ \A i \in DOMAIN chat :
            (suggestAnotherOf(i) /\ queue' = CHAT_COMMAND_SUGGEST_ANOTHER)
              => LET target == chat[i].result.refactoringTarget
                     p == target.documentPath
                 IN  /\ chat'[i].restore \in {"restored", "failed", "nothing"}
                     /\ (chat[i].applied /\ originalDocs[p].text # <<>>
                            /\ docVersion'[p] # docVersion[p])
                          => /\ docText'[p] = originalDocs[p].text
                             /\ selection'[p] =
                                  Sel(ValidatePosition(docText'[p], TargetSelection(target).start),
                                      ValidatePosition(docText'[p], TargetSelection(target).end))
       /\ (CaptureStep /\ req'.command = CHAT_COMMAND_SUGGEST_ANOTHER
             /\ \E i \in DOMAIN chat :
                  chat[i].applied /\ originalDocs[req'.path].text # <<>>
                  /\ chat[i].restore # "failed")
            => /\ \E i \in DOMAIN chat : chat[i].restore = "restored"
               /\ req'.capText = originalDocs[req'.path].text]_vars

\* The handler builds the prompt of a 'suggest another' request.
AnotherPromptBuilt == CaptureStep /\ req'.command = CHAT_COMMAND_SUGGEST_ANOTHER

\* C31: captured diagnostics are used once: the prompt of a 'suggest another'
\* request includes the diagnostics captured so far and leaves the captured
\* value empty, no other prompt includes any, and only the revert of the
\* 'Suggest Another' button captures diagnostics; so the prompt of a later
\* 'suggest another' request with no revert in between includes none.
C31_DiagnosticsAreSingleUse ==
    [][/\ AnotherPromptBuilt
            => /\ req'.diagnostics = capturedDiagnostics
               /\ capturedDiagnostics' = <<>>
       /\ (CaptureStep /\ ~AnotherPromptBuilt) => req'.diagnostics = <<>>
       /\ (capturedDiagnostics' # capturedDiagnostics /\ capturedDiagnostics' # <<>>)
            => \E i \in DOMAIN chat :
                  /\ suggestAnotherOf(i)
                  /\ HasOriginalContent(originalDocs[chat[i].result.refactoringTarget.documentPath])]_vars

\* C31 witness: the prompt of the second turn included captured diagnostics, and
\* the prompt of a third request for another suggestion has been built with none.
C31_LaterPromptWithoutDiagnosticsReached ==
    /\ Len(chat) = 2
    /\ chat[2].command = CHAT_COMMAND_SUGGEST_ANOTHER
    /\ chat[2].diagnostics # <<>>
    /\ chat[2].restore = "no"
    /\ req.pc = "streaming"
    /\ req.command = CHAT_COMMAND_SUGGEST_ANOTHER
    /\ req.diagnostics = <<>>
    /\ capturedDiagnostics = <<>>

\* C32: the diagnostics captured by a revert are error diagnostics only: no
\* warning is among them.
C32_HarvestHoldsOnlyErrors ==
    \A k \in DOMAIN capturedDiagnostics : capturedDiagnostics[k].severity = ErrorSeverity

\* C33: an Apply on a preview closes the preview whatever it does next: after
\* it the active editor is the editor of the target document and not the
\* preview, when the edit was made, when the host refused it, and when Apply
\* found the version changed and left the document as it was.
C33_ApplyClosesPreviewFirst ==
    [][ApplyOnPreview
        => /\ active'.kind # "diff"
           /\ active' = FileEditor(TargetPath)
           /\ msg' = MsgStale
                => /\ docVersion[TargetPath] # active.target.documentVersion
                   /\ docText' = docText
                   /\ docVersion' = docVersion]_vars

\* C33 witness: Apply has refused a preview as stale after the user's edit, and
\* the target document's editor is active in place of the preview.
C33_StaleApplyClosedPreviewReached ==
    /\ msg = MsgStale
    /\ active = FileEditor(MainPath)
    /\ edits > 0
    /\ \A i \in DOMAIN chat : ~chat[i].applied

\* The stray character some answers put in front of the code.
LeadingArtifact(interior) == Len(interior) > 0 /\ interior[1] = "."

\* C35: the text the preview is built from is the interior of the extracted
\* block without its first character when the interior begins with a stray
\* dot, and the interior as it is otherwise.
C35_LeadingArtifactStripped ==
    LET interior == removeFirstAndLastLine(extractor.codeBlock)
    IN  extractor.pc = "done"
        => extractor.refactoredCode =
             IF LeadingArtifact(interior) THEN Tail(interior) ELSE interior

\* C34: the target Apply decodes from the annotated URI of the preview is the
\* target the preview was opened with, field for field, whatever characters
\* the document path holds.
C34_TargetRoundTrip ==
    identity.pc = "applied" => identity.annotation = identity.target

\* C36: a target is applied at most once: when a suggestion with the target of
\* the active preview has been applied, Apply shows the stale message and
\* changes neither a document nor the saved originals.
C36_AppliedTargetIsStale ==
    [][(ApplyOnPreview
          /\ \E i \in DOMAIN chat :
                chat[i].applied /\ chat[i].result.refactoringTarget = active.target)
        => /\ msg' = MsgStale
           /\ docText' = docText
           /\ docVersion' = docVersion
           /\ originalDocs' = originalDocs]_vars

\* C36 witness: the one suggestion was applied, its preview opened again with no
\* edit by the user and no revert in between, and the second Apply refused.
C36_SecondApplyRefusedReached ==
    /\ Len(chat) = 1
    /\ chat[1].applied
    /\ chat[1].restore = "no"
    /\ edits = 0
    /\ msg = MsgStale
    /\ docVersion[MainPath] = chat[1].result.refactoringTarget.documentVersion + 1

\* The chat commands that follow up on an earlier suggestion.
FollowUpCommands == {CHAT_COMMAND_SUGGEST_ANOTHER, CHAT_COMMAND_SUGGEST_NEXT}

\* The first turn of the chat is added, for a follow-up command.
FirstTurnIsFollowUp ==
    Len(chat) = 0 /\ Len(chat') = 1 /\ chat'[1].command \in FollowUpCommands

\* C37 as stated: a follow-up command in a chat without an earlier turn of the
\* participant is answered with the report that no refactoring has been
\* suggested yet and with the sentinel result, and no request is sent to the
\* language model.
C37_NoHistoryReportsNoSuggestion ==
    [][/\ (CaptureStep /\ req'.command \in FollowUpCommands) => Len(chat) > 0
       /\ FirstTurnIsFollowUp
            => /\ chat'[1].result = NO_REFACTORING_RESULT
               /\ chat'[1].buttons = {}
               /\ req'.pc = "idle"
               /\ msg' = MsgNoSuggestion]_vars

\* C37, amended: a follow-up command in a chat without an earlier turn of the
\* participant is never sent to the language model and is answered with the
\* sentinel result and no button; the report is that no refactoring has been
\* suggested yet when the handler reaches its switch on the command, the report
\* of the missing editor when no editor is active, and none when the scope
\* picker returned false or was cancelled.
C37_FollowUpNeedsPriorTurn ==
    [][/\ (CaptureStep /\ req'.command \in FollowUpCommands) => Len(chat) > 0
       /\ FirstTurnIsFollowUp
            => /\ chat'[1].result = NO_REFACTORING_RESULT
               /\ chat'[1].buttons = {}
               /\ req'.pc = "idle"
               /\ msg' = IF active.kind = "none" THEN MsgNoEditor
                         ELSE IF picker'.outcome \in {"false", "cancelled"} THEN MsgNone
                         ELSE MsgNoSuggestion
               /\ chat'[1].msg = msg']_vars

\* C37 witness: the first request of the chat was a follow-up command that
\* reached the switch with a selection the scope picker had confirmed, and was
\* refused with the report and the sentinel result.
C37_FollowUpRefusedReached ==
    /\ Len(chat) = 1
    /\ chat[1].command \in FollowUpCommands
    /\ chat[1].msg = MsgNoSuggestion
    /\ chat[1].result = NO_REFACTORING_RESULT
    /\ picker.outcome = "confirmed"
    /\ req.pc = "idle"

====
